---- MODULE Spec2Model ----
(***************************************************************************)
(* A model of MarimoCool: the temperature control loop (TempManager) of    *)
(* temp_manager, the thread interface around it, the packet framing of     *)
(* shared/sock_api, and its server (SockServer) with gpio_service's        *)
(* handler.                                                                *)
(*                                                                         *)
(* Temperatures are in tenths of a degree (19.5 C is 195), times in        *)
(* seconds.                                                                *)
(***************************************************************************)
EXTENDS Integers, Sequences, FiniteSets, TLC

VARIABLES
    variant,    \* which copy of TempManager runs: "core_run" or "manager"
    params,     \* TempManager.params
    state,      \* TempManager.state: None, or <<[phase, last_peltier_on]>>
    stop_lock,  \* TempManager.stop_lock is locked
    tick_lock,  \* manager.py's TempManager.tick_lock: its holder, or "free"
    rpc,        \* where each thread that executes run() is
    loc,        \* the locals of tick(), peltier_tick() and fan_tick() per thread
    peltier,    \* the peltier relay of gpio_service is on
    fan,        \* the fan relay of gpio_service is on
    cpc,        \* where each caller (core_run's main thread, Interface's clients) is
    hist,       \* history of the current run, read only by the properties
    ithread,    \* Interface.thread: "None", or the thread that executes run()
    param_lock, \* Interface.param_lock: its holder, or "free"
    pfile,      \* the params saved in storage/temp_manager/params.yaml
    cloc,       \* the locals of each caller of Interface's methods
    wire,       \* a TCP stream: the bytes written to it and not yet received
    wstate,     \* the stream's writing end: "open", "closed" or "reset"
    rd,         \* the reader of the stream: where read_packet and read_bytes are
    sent,       \* the payloads send_packet has written in full, in order
    got,        \* the payloads read_packet has returned, in order
    trunc,      \* the part of a frame a failed sendall has written
    recv_last,  \* what the last recv did: "none", "data", "eof" or "error"
    send_last,  \* what the last send_packet did: "none", "ok", "OverflowError", "ClosedException"
    link,       \* each connection to SockServer: "none", "backlog", "open", "peer_closed",
                \* "broken" (a send has failed on it), "srv_closed"
    inq,        \* per connection: the request frames the client has sent, not yet read
    spc,        \* per connection: where the thread that executes conn_manager is
    pend,       \* per connection: conn_manager's locals, what the handler returned or raised
    reqs,       \* per connection: the request frames conn_manager has read, in order
    resps,      \* per connection: the response frames conn_manager has written, in order
    lsock,      \* SockServer.sock: "listening" or "closed"
    apc,        \* where the thread that executes SockServer.run is
    acc,        \* SockServer.run's local conn: the connection accept returned
    threads,    \* SockServer.threads, the connections of its (thread, conn) pairs
    clpc,       \* where the caller of SockServer.close is
    cidx,       \* SockServer.close: the position of its for loop in self.threads
    conn,       \* SockConn.conn: NoConn, or the number of the connection it caches
    req_lock,   \* SockConn.req_lock: its holder, or "free"
    qpc,        \* where each caller of SockConn.request is
    qloc,       \* per caller: the body of its call, its attempt, what the call returned
                \* or raised, and how often it has sent and connected
    chan,       \* per connection a SockConn has made: whether it is up, the frame parts
                \* the server has received on it, the responses not yet read
    nlinks,     \* the connections SockConn has made so far
    ncalls,     \* the calls of SockConn.request so far
    running,    \* Instance.running
    run_info,   \* Instance.run_info: reason and info (since is not modelled)
    instance_info,  \* Instance.instance_info: which of [params, state] are not None
    stderr_reject,  \* Instance.stderr_reject: "" or some text
    proc,       \* Instance.proc: the child it refers to, 0 before the first start
    stdout_thread,  \* Instance.stdout_thread: the worker set it refers to, 0 if unset
    stderr_thread,  \* Instance.stderr_thread, likewise
    watch_thread,   \* Instance.watch_thread, likewise
    child,      \* per child process: its status, exit code, whether it was sent
                \* SIGINT, whether it has written text to stderr that is not read
    wset,       \* per set of workers a start() creates: the child whose pipes the
                \* stream threads read, the child the watchdog waits for, and where
                \* each of the three threads is
    hpc,        \* where each request handler thread of the web server is
    hloc,       \* per handler: the request, its outcome, the child exit() waits for
    nops,       \* the POST /start and POST /stop requests so far
    snap,       \* per caller of copy_state: what the last call returned or raised,
                \* and whether a tick was under way when it read the state
    epipe,      \* core_run's messages on stderr: those since the last "running",
                \* it included, or all of them before the first tick
    cache,      \* gpio_service: per sensor, the cached reading and its time
    time_ref,   \* gpio_service: what time_ref() returns
    req_lock_g, \* gpio_service: req_lock, "free" or the session that holds it
    gpc,        \* gpio_service: per session, where its handle_req is
    gloc,       \* gpio_service: per session, the locals of its handle_req
    nreads,     \* read requests so far
    params_file,    \* high_run.py: the params in the params file
    emitted,    \* the strings out_pipe was called with, in order
    errpipe,    \* the characters written to the child's stderr and not yet read
    errclosed,  \* the child has exited: the pipe is at end of file once drained
    reader      \* stderr_stream's locals, and what it gave to handle_packet

loopVars == <<variant, params, state, stop_lock, tick_lock, rpc, loc, peltier, fan, cpc, hist>>

ifaceVars == <<ithread, param_lock, pfile, cloc>>

frameVars == <<wire, wstate, rd, sent, got, trunc, recv_last, send_last>>

srvVars == <<link, inq, spc, pend, reqs, resps, lsock, apc, acc, threads, clpc, cidx>>

cliVars == <<conn, req_lock, qpc, qloc, chan, nlinks, ncalls>>

supVars == <<running, run_info, instance_info, stderr_reject, proc, stdout_thread,
             stderr_thread, watch_thread, child, wset, hpc, hloc, nops>>

copyVars == <<snap>>

pipeVars == <<epipe>>

gpioVars == <<cache, time_ref, req_lock_g, gpc, gloc, nreads>>

fileVars == <<params_file>>

wireVars == <<emitted, errpipe, errclosed, reader>>

vars == <<loopVars, ifaceVars, frameVars, srvVars, cliVars, supVars, copyVars, pipeVars, gpioVars, fileVars, wireVars>>

\* Everything but the stderr pipe taken character by character.
notWire == <<loopVars, ifaceVars, frameVars, srvVars, cliVars, supVars, copyVars, pipeVars,
            gpioVars, fileVars>>

\* Everything but the control loop's variables.
notLoop == <<ifaceVars, frameVars, srvVars, cliVars, supVars, copyVars, pipeVars, gpioVars, fileVars, wireVars>>

\* The same without core_run's stderr, for the steps that write to it.
notLoopPipe == <<ifaceVars, frameVars, srvVars, cliVars, supVars, copyVars, gpioVars, fileVars, wireVars>>

notGpio == <<loopVars, ifaceVars, frameVars, srvVars, cliVars, supVars, copyVars, pipeVars,
            fileVars, wireVars>>

\* The same without the relays, for the step of gpio_service that switches them.
notGpioRelay == <<variant, params, state, stop_lock, tick_lock, rpc, loc, cpc, hist,
                 ifaceVars, frameVars, srvVars, cliVars, supVars, copyVars, pipeVars, fileVars, wireVars>>

\* All but the supervisor and the params file, for the step that writes the file.
notFile == <<loopVars, ifaceVars, frameVars, srvVars, cliVars, copyVars, pipeVars, gpioVars,
            wireVars>>

\* Everything but the control loop's and Interface's variables.
notIface == <<frameVars, srvVars, cliVars, supVars, copyVars, pipeVars, gpioVars, fileVars, wireVars>>

\* Everything but the stream's variables.
notFrame == <<loopVars, ifaceVars, srvVars, cliVars, supVars, copyVars, pipeVars, gpioVars, fileVars, wireVars>>

\* Everything but the client's variables.
notCli == <<loopVars, ifaceVars, frameVars, srvVars, supVars, copyVars, pipeVars, gpioVars, fileVars, wireVars>>

\* Everything but the supervisor's variables.
notSup == <<loopVars, ifaceVars, frameVars, srvVars, cliVars, copyVars, pipeVars, gpioVars, fileVars, wireVars>>

\* Everything copy_state leaves alone but the manager's own variables.
notCopy == <<ifaceVars, frameVars, srvVars, cliVars, supVars, pipeVars, gpioVars, fileVars, wireVars>>

\* Everything but the server's variables and the two relays, which gpio_service's
\* handler switches.
notSrv == <<variant, params, state, stop_lock, tick_lock, rpc, loc, cpc, hist,
            ifaceVars, frameVars, cliVars, supVars, copyVars, pipeVars, gpioVars, fileVars, wireVars>>

(***************************************************************************)
(* Bounds                                                                  *)
(***************************************************************************)
\* Packets written in full to one stream at most.
MaxPackets == 2

\* Request frames the clients of one SockServer send at most, all connections
\* together.
MaxReqs == 3

\* Calls of SockConn.request on one SockConn at most.
MaxCalls == 3

\* Connections one SockConn makes at most; further attempts fail.
MaxLinks == 2

\* POST /start and POST /stop requests the supervisor gets at most.
MaxOps == 3

\* POST /start requests the supervisor gets at most when two handlers start it.
MaxStarts == 2

\* Up to this many bytes, a recv may return any number of them, and a failed
\* sendall may have written any number of them; above, a few sizes are taken.
MaxSplit == 4

\* Ticks one run() of core_run executes at most.
MaxTicks == 6

\* Ticks one run() started through Interface executes at most.
MaxTicksIface == 2
MaxReads == 3
MaxTime == 4
MaxMsgs == 2
MaxMsgLen == 2

(***************************************************************************)
(* Data                                                                    *)
(***************************************************************************)
Runners == {"r1", "r2"}

\* core_run's main thread, and the threads that call Interface's methods.
Clients == {"c1", "c2"}
Callers == {"main"} \cup Clients

None == <<>>

\* Phase = Enum('Phase', [('cool', 1), ('idle', 2)])
Phase == {"cool", "idle"}

\* TempManager.initial_state
initial_state == [phase |-> "cool", last_peltier_on |-> 0]

\* Params the child is started with: what core_run.get_params accepts.
ensure_params(p) ==
    /\ p.high > p.low
    /\ p.fan_retain >= 0
    /\ 1 <= p.tick_time /\ p.tick_time <= 60

ParamChoices ==
    { [low |-> 200, high |-> 240, fan_retain |-> 30, tick_time |-> 5],
      [low |-> 200, high |-> 240, fan_retain |-> 0, tick_time |-> 1],
      [low |-> 220, high |-> 240, fan_retain |-> 7, tick_time |-> 3] }

\* What the tank sensor may read.
Temps == {195, 200, 220, 240}

\* temperature, peltier_on, fan_on: the locals of peltier_tick and fan_tick;
\* peltier_fail, fan_fail: tick()'s, "unset" until assigned; fan_started: fan_tick
\* was called in this tick; last0: last_peltier_on when fan_tick was called;
\* peltier_raised, fan_raised: the sub-tick raised.
NoLocals ==
    [temperature |-> 0, peltier_on |-> FALSE, fan_on |-> FALSE,
     peltier_fail |-> "unset", fan_fail |-> "unset", fan_started |-> FALSE,
     last0 |-> 0, peltier_raised |-> FALSE, fan_raised |-> FALSE]

\* peltier_tick has returned or raised: its locals are gone.
PeltierOver(l, fail) ==
    [l EXCEPT !.temperature = 0, !.peltier_on = FALSE, !.peltier_fail = fail]

\* ticks: ticks completed; off_tick: the tick in which the peltier was last turned
\* off (0: none, or turned on since); clean: no sub-tick failed since off_tick.
NoHist == [ticks |-> 0, off_tick |-> 0, on_tick |-> 0, clean |-> FALSE]

\* The connections clients make to one SockServer.
Conns == {"k1", "k2"}

\* pi.PERIPHERALS, what gpio_service exports
Sensors == {"tank_temp"}
Devices == {"peltier", "fan"}

\* Request bodies: a sensor read, three device operations, a name that is not
\* exported, an operation a sensor does not have, a dict without the operation
\* key, and a frame that is not JSON.
Requests ==
    { [name |-> "tank_temp", operation |-> "read"],
      [name |-> "peltier", operation |-> "turn_on"],
      [name |-> "peltier", operation |-> "is_on"],
      [name |-> "unknown", operation |-> "read"],
      [name |-> "tank_temp", operation |-> "turn_on"],
      [name |-> "fan"],
      [malformed |-> TRUE] }

\* The values a handler returns: a temperature, a bool, the string "OK", and a
\* value json.dumps raises TypeError on.
Temp(t) == [type |-> "float", n |-> t]

Bool(b) == [type |-> "bool", n |-> IF b THEN 1 ELSE 0]

Ok == [type |-> "str", n |-> 0]

Opaque == [type |-> "opaque", n |-> 0]

Value(v) == [kind |-> "value", v |-> v]

Raise(e) == [kind |-> "raise", e |-> e]

\* What the tank sensor may read, as gpio_service's clients see it.
Readings == {200, 240}

NoPend == [kind |-> "none", e |-> "none"]

\* The locals of a call of SockConn.request: body, the request body (0: none);
\* try, 1 on the cached connection and 2 on the fresh one; ret, what the call
\* returned or raised; sends, the request frames it has begun to send;
\* connects, the connections it has attempted.
NoCall == [body |-> 0, try |-> 0, ret |-> [kind |-> "none", re |-> 0], sends |-> 0,
           connects |-> 0]

\* A connection of SockConn.Conn: up, it is there; inb, the parts of frames the
\* server has received on it; out, the responses the server has written and the
\* client has not read; served, the request bodies the handler was called with
\* by the session of the connection.
NoChan == [up |-> FALSE, inb |-> <<>>, out |-> <<>>, served |-> <<>>]

\* self.conn is None; the connections SockConn makes are numbered from 1.
NoConn == 0

\* The locals of a caller of Interface: d, the dict given to set_params; t, the
\* thread stop_manager joins.
NoArgs == [d |-> <<>>, t |-> "None"]

\* Instance.param_keys / the fields of Params
ParamKeys == {"low", "high", "fan_retain", "tick_time"}

Float(n) == [n |-> n, float |-> TRUE]

IntVal(n) == [n |-> n, float |-> FALSE]

\* Dicts given to set_params: a valid one; high below low; a negative fan_retain;
\* a tick_time of 0; a tick_time of 61; an int where a float is asked; a missing
\* key; an extra key.
ParamInputs ==
    { [low |-> Float(220), high |-> Float(240), fan_retain |-> Float(7), tick_time |-> Float(3)],
      [low |-> Float(240), high |-> Float(200), fan_retain |-> Float(30), tick_time |-> Float(5)],
      [low |-> Float(200), high |-> Float(240), fan_retain |-> Float(-1), tick_time |-> Float(5)],
      [low |-> Float(200), high |-> Float(240), fan_retain |-> Float(30), tick_time |-> Float(0)],
      [low |-> Float(200), high |-> Float(240), fan_retain |-> Float(30), tick_time |-> Float(61)],
      [low |-> IntVal(200), high |-> Float(240), fan_retain |-> Float(30), tick_time |-> Float(5)],
      [low |-> Float(200), high |-> Float(240), fan_retain |-> Float(30)],
      [low |-> Float(200), high |-> Float(240), fan_retain |-> Float(30), tick_time |-> Float(5),
       extra |-> Float(1)] }

\* temp.Params(**params): TypeError if there are extra or missing keys
params_keys_ok(d) == DOMAIN d = ParamKeys

\* Params(**params) as stored: the four values
ToParams(d) ==
    [low |-> d.low.n, high |-> d.high.n, fan_retain |-> d.fan_retain.n,
     tick_time |-> d.tick_time.n]

validate_params_types(d) ==
    \A k \in ParamKeys : d[k].float

\* Interface.validate_params: the type tests and 0 <= tick_time <= 60
validate_params(d) ==
    /\ \A k \in ParamKeys : d[k].float
    /\ 0 <= d.tick_time.n /\ d.tick_time.n <= 60

(***************************************************************************)
(* The decisions of a tick                                                 *)
(***************************************************************************)
NextPhase_le(phase, t, p) ==
    IF phase = "cool" /\ t <= p.low THEN "idle"
    ELSE IF phase = "idle" /\ t >= p.high THEN "cool"
    ELSE phase

\* peltier_tick: update current phase if needed.
NextPhase(phase, t, p) ==
    IF phase = "cool" /\ t < p.low THEN "idle"
    ELSE IF phase = "idle" /\ t >= p.high THEN "cool"
    ELSE phase

\* peltier_tick: the request that sets the peltier to what the phase asks.
PeltierRequest_idle(peltier_on, phase) ==
    IF peltier_on /\ phase = "idle" THEN "turn_off" ELSE "none"

PeltierRequest(peltier_on, phase) ==
    IF peltier_on /\ phase = "idle" THEN "turn_off"
    ELSE IF ~peltier_on /\ phase = "cool" THEN "turn_on"
    ELSE "none"

\* fan_tick: ticks after the last time the peltier was seen on.
NextLastPeltierOn(last, peltier_on) ==
    IF peltier_on THEN 0 ELSE last + 1

FanRequest_le(last, fan_on, p) ==
    IF last * p.tick_time <= p.fan_retain /\ ~fan_on THEN "turn_on"
    ELSE IF last * p.tick_time > p.fan_retain /\ fan_on THEN "turn_off"
    ELSE "none"

\* fan_tick: the request that sets the fan.
FanRequest_blind(last, fan_on, p) ==
    IF last * p.tick_time < p.fan_retain THEN "turn_on"
    ELSE IF last * p.tick_time >= p.fan_retain /\ fan_on THEN "turn_off"
    ELSE "none"

FanRequest(last, fan_on, p) ==
    IF last * p.tick_time < p.fan_retain /\ ~fan_on THEN "turn_on"
    ELSE IF last * p.tick_time >= p.fan_retain /\ fan_on THEN "turn_off"
    ELSE "none"

AfterPeltierFail_skip == "tick_end"

AfterPeltierFail_retry == "p_ison"

\* tick(): the except clause of the peltier sub-tick falls through to the fan sub-tick.
AfterPeltierFail == "f_ison"

(***************************************************************************)
(* TempManager.run and the tick, one step per request to gpio_service      *)
(***************************************************************************)
Cur == state[1]

Goto(r, pc) == rpc' = [rpc EXCEPT ![r] = pc]

\* tick(), fan_tick has returned: fan_fail = None; run.py then evaluates
\* log(f"Fan tick failed with {repr(e)}") inside the try, where e is not bound
\* (never assigned, or unbound at the end of the peltier's except clause), and
\* the NameError is caught by its own except clause: fan_fail = e.
FanReturned == IF variant = "run" THEN "exc" ELSE "None"

\* out_pipe(m) for each m of ms, which core_run alone has.
Emit(ms) == epipe' = IF variant = "core_run" THEN epipe \o ms ELSE epipe

FailMessage_silent(kind) == <<>>

\* tick(): out_pipe(f"peltier_fail; <{repr(e)}>") and its like for the fan, in
\* the except clauses.
FailMessage(kind) == <<kind>>

SetLoc(r, l) == loc' = [loc EXCEPT ![r] = l]

\* run(): core_run refuses a second run; both log the start.
RunCheck(r) ==
    /\ rpc[r] = "run_check"
    /\ IF variant = "core_run" /\ state # None
       THEN Goto(r, "raised")
       ELSE Goto(r, "run_init")
    /\ UNCHANGED <<variant, params, state, stop_lock, tick_lock, loc, peltier, fan, cpc, hist>>
    /\ UNCHANGED notLoop

\* run(): core_run's out_pipe(params), and
\* self.state = State(**asdict(self.initial_state)); run.py's run() goes on with
\* the state the constructor was given.
RunInit(r) ==
    /\ rpc[r] = "run_init"
    /\ state' = IF variant = "run" THEN state ELSE <<initial_state>>
    /\ hist' = NoHist
    /\ Emit(<<"params">>)
    /\ Goto(r, "tick_start")
    /\ UNCHANGED <<variant, params, stop_lock, tick_lock, loc, peltier, fan, cpc>>
    /\ UNCHANGED notLoopPipe

\* The loop starts a tick: core_run's out_pipe("running"); manager.py's tick()
\* takes tick_lock.
TickStart(r) ==
    /\ rpc[r] = "tick_start"
    /\ hist.ticks < (IF variant = "core_run" THEN MaxTicks ELSE MaxTicksIface)
    /\ variant = "manager" => tick_lock = "free"
    /\ tick_lock' = IF variant = "manager" THEN r ELSE tick_lock
    /\ epipe' = IF variant = "core_run" THEN <<"running">> ELSE epipe
    /\ Goto(r, "p_read")
    /\ UNCHANGED <<variant, params, state, stop_lock, loc, peltier, fan, cpc, hist>>
    /\ UNCHANGED notLoopPipe

\* peltier_tick: the temperature arrives, the phase is updated.
PeltierRead(r) ==
    /\ rpc[r] = "p_read"
    /\ state # None
    /\ \E t \in Temps :
        /\ SetLoc(r, [loc[r] EXCEPT !.temperature = t])
        /\ state' = <<[Cur EXCEPT !.phase = NextPhase(Cur.phase, t, params)]>>
    /\ Goto(r, "p_ison")
    /\ UNCHANGED <<variant, params, stop_lock, tick_lock, peltier, fan, cpc, hist>>
    /\ UNCHANGED notLoop

\* peltier_tick: the peltier's state arrives; a request follows if it disagrees
\* with the phase, else the sub-tick is over.
PeltierIsOn(r) ==
    /\ rpc[r] = "p_ison"
    /\ state # None
    /\ LET req == PeltierRequest(peltier, Cur.phase) IN
        /\ SetLoc(r, IF req = "none"
                      THEN PeltierOver(loc[r], "None")
                      ELSE [loc[r] EXCEPT !.peltier_on = peltier])
        /\ Goto(r, CASE req = "turn_off" -> "p_off"
                     [] req = "turn_on" -> "p_on"
                     [] OTHER -> "f_ison")
    /\ UNCHANGED <<variant, params, state, stop_lock, tick_lock, peltier, fan, cpc, hist>>
    /\ UNCHANGED notLoop

PeltierTurnOff(r) ==
    /\ rpc[r] = "p_off"
    /\ peltier' = FALSE
    /\ SetLoc(r, PeltierOver(loc[r], "None"))
    /\ hist' = [hist EXCEPT !.off_tick = hist.ticks + 1, !.clean = TRUE]
    /\ Goto(r, "f_ison")
    /\ UNCHANGED <<variant, params, state, stop_lock, tick_lock, fan, cpc>>
    /\ UNCHANGED notLoop

PeltierTurnOn(r) ==
    /\ rpc[r] = "p_on"
    /\ peltier' = TRUE
    /\ SetLoc(r, PeltierOver(loc[r], "None"))
    /\ hist' = [hist EXCEPT !.off_tick = 0, !.on_tick = hist.ticks + 1, !.clean = FALSE]
    /\ Goto(r, "f_ison")
    /\ UNCHANGED <<variant, params, state, stop_lock, tick_lock, fan, cpc>>
    /\ UNCHANGED notLoop

\* A request of the peltier sub-tick raises (ClosedException, RuntimeError, or an
\* AttributeError on a state that is None). A turn_on or turn_off whose response
\* was lost may have been carried out.
PeltierFail(r) ==
    /\ rpc[r] \in {"p_read", "p_ison", "p_off", "p_on"}
    /\ \E applied \in BOOLEAN :
        /\ applied => rpc[r] \in {"p_off", "p_on"}
        /\ peltier' = IF applied THEN rpc[r] = "p_on" ELSE peltier
        /\ hist' = [hist EXCEPT !.clean = FALSE,
                                !.off_tick = IF applied /\ rpc[r] = "p_on" THEN 0 ELSE @]
    /\ SetLoc(r, [PeltierOver(loc[r], "exc") EXCEPT !.peltier_raised = TRUE])
    /\ Emit(FailMessage("peltier_fail"))
    /\ Goto(r, AfterPeltierFail)
    /\ UNCHANGED <<variant, params, state, stop_lock, tick_lock, fan, cpc>>
    /\ UNCHANGED notLoopPipe

\* fan_tick: the peltier's state arrives, last_peltier_on is reset or incremented.
FanIsOn(r) ==
    /\ rpc[r] = "f_ison"
    /\ state # None
    /\ SetLoc(r, [loc[r] EXCEPT !.peltier_on = peltier, !.fan_started = TRUE,
                                !.last0 = Cur.last_peltier_on])
    /\ state' = <<[Cur EXCEPT !.last_peltier_on = NextLastPeltierOn(@, peltier)]>>
    /\ Goto(r, "f_fan")
    /\ UNCHANGED <<variant, params, stop_lock, tick_lock, peltier, fan, cpc, hist>>
    /\ UNCHANGED notLoop

\* fan_tick: the fan's state arrives; a request follows if it disagrees with the
\* retain rule, else the sub-tick is over.
FanRead(r) ==
    /\ rpc[r] = "f_fan"
    /\ state # None
    /\ LET req == FanRequest(Cur.last_peltier_on, fan, params) IN
        /\ SetLoc(r, [loc[r] EXCEPT !.fan_on = fan,
                                    !.fan_fail = IF req = "none" THEN FanReturned ELSE @])
        /\ Goto(r, CASE req = "turn_off" -> "f_off"
                     [] req = "turn_on" -> "f_on"
                     [] OTHER -> "tick_end")
    /\ UNCHANGED <<variant, params, state, stop_lock, tick_lock, peltier, fan, cpc, hist>>
    /\ UNCHANGED notLoop

FanTurnOff(r) ==
    /\ rpc[r] = "f_off"
    /\ fan' = FALSE
    /\ SetLoc(r, [loc[r] EXCEPT !.fan_fail = FanReturned])
    /\ Goto(r, "tick_end")
    /\ UNCHANGED <<variant, params, state, stop_lock, tick_lock, peltier, cpc, hist>>
    /\ UNCHANGED notLoop

FanTurnOn(r) ==
    /\ rpc[r] = "f_on"
    /\ fan' = TRUE
    /\ SetLoc(r, [loc[r] EXCEPT !.fan_fail = FanReturned])
    /\ Goto(r, "tick_end")
    /\ UNCHANGED <<variant, params, state, stop_lock, tick_lock, peltier, cpc, hist>>
    /\ UNCHANGED notLoop

\* A request of the fan sub-tick raises.
FanFail(r) ==
    /\ rpc[r] \in {"f_ison", "f_fan", "f_off", "f_on"}
    /\ \E applied \in BOOLEAN :
        /\ applied => rpc[r] \in {"f_off", "f_on"}
        /\ fan' = IF applied THEN rpc[r] = "f_on" ELSE fan
    /\ SetLoc(r, [loc[r] EXCEPT !.fan_fail = "exc", !.fan_started = TRUE,
                                !.fan_raised = TRUE])
    /\ hist' = [hist EXCEPT !.clean = FALSE]
    /\ Emit(FailMessage("fan_fail"))
    /\ Goto(r, "tick_end")
    /\ UNCHANGED <<variant, params, state, stop_lock, tick_lock, peltier, cpc>>
    /\ UNCHANGED notLoopPipe

\* tick() returns (peltier_fail, fan_fail); manager.py's releases tick_lock,
\* core_run's run() goes on to out_pipe(state) and out_pipe("done").
TickEnd(r) ==
    /\ rpc[r] = "tick_end"
    /\ tick_lock' = IF variant = "manager" THEN "free" ELSE tick_lock
    /\ hist' = [hist EXCEPT !.ticks = @ + 1]
    /\ SetLoc(r, NoLocals)
    /\ Emit(<<"state", "done">>)
    /\ Goto(r, "sleep")
    /\ UNCHANGED <<variant, params, state, stop_lock, peltier, fan, cpc>>
    /\ UNCHANGED notLoopPipe

\* run(): after the sleep, if self.stop_lock.locked()
LoopCheck(r) ==
    /\ rpc[r] = "sleep"
    /\ Goto(r, IF stop_lock THEN "release" ELSE "tick_start")
    /\ UNCHANGED <<variant, params, state, stop_lock, tick_lock, loc, peltier, fan, cpc, hist>>
    /\ UNCHANGED notLoop

\* run(): self.stop_lock.release(), which raises on a lock that is not locked; break
LoopRelease(r) ==
    /\ rpc[r] = "release"
    /\ stop_lock' = FALSE
    /\ Goto(r, IF stop_lock THEN "exiting" ELSE "raised")
    /\ UNCHANGED <<variant, params, state, tick_lock, loc, peltier, fan, cpc, hist>>
    /\ UNCHANGED notLoop

\* run(): self.state = None; run.py's run() leaves the state as it is.
RunExit(r) ==
    /\ rpc[r] = "exiting"
    /\ state' = IF variant = "run" THEN state ELSE None
    /\ Goto(r, "done")
    /\ UNCHANGED <<variant, params, stop_lock, tick_lock, loc, peltier, fan, cpc, hist>>
    /\ UNCHANGED notLoop

\* No Interface is in use.
NoIface ==
    /\ ithread = "None"
    /\ param_lock = "free"
    /\ pfile = params
    /\ cloc = [c \in Clients |-> NoArgs]

\* No stream is in use.
NoStream ==
    /\ wire = <<>>
    /\ wstate = "open"
    /\ rd = [pc |-> "idle", stage |-> "header", want |-> 0, data |-> <<>>, split |-> FALSE]
    /\ sent = <<>>
    /\ got = <<>>
    /\ trunc = <<>>
    /\ recv_last = "none"
    /\ send_last = "none"

\* No SockServer is in use.
NoServer ==
    /\ link = [k \in Conns |-> "none"]
    /\ inq = [k \in Conns |-> <<>>]
    /\ spc = [k \in Conns |-> "none"]
    /\ pend = [k \in Conns |-> NoPend]
    /\ reqs = [k \in Conns |-> <<>>]
    /\ resps = [k \in Conns |-> <<>>]
    /\ lsock = "closed"
    /\ apc = "none"
    /\ acc = "none"
    /\ threads = <<>>
    /\ clpc = "idle"
    /\ cidx = 0

\* What a call of copy_state came to: ret is "None", "State" or the exception
\* raised; val is the State returned; mid, a tick was under way at the read.
NoSnap == [ret |-> "none", val |-> initial_state, mid |-> FALSE]

\* Nobody has called copy_state.
NoCopy == snap = [c \in Clients |-> NoSnap]

\* The web server's handler threads, the children an Instance may spawn and the
\* sets of workers it may create: one of each per start().
Handlers == {"h1", "h2"}
Procs == 1..MaxOps
Sets == 1..MaxOps

\* A child: tail, what it left on stderr that is not read yet: "none", "text"
\* that is not a packet, a "packet", or a packet "cut" short by the end of the
\* stream; params, the command-line arguments it was started with.
NoChild == [st |-> "none", code |-> 0, sig |-> FALSE, tail |-> "none", params |-> 0]

\* What a child that exits with a code may leave on stderr.
Tails(code) == IF code = 0 THEN {"none", "packet"} ELSE {"none", "text", "packet", "cut"}
NoSet == [pipe |-> 0, wproc |-> 0, out |-> "none", err |-> "none", watch |-> "none"]
NoOp == [op |-> "none", res |-> "none", p |-> 0, params |-> 0]

\* The contents the params file may have.
ParamFiles == {1, 2}
RunInfo(reason, info) == [reason |-> reason, info |-> info]
Null == [params |-> FALSE, state |-> FALSE]

\* Instance.__init__, and a web server with no request in progress.
NoSuper ==
    /\ running = FALSE
    /\ run_info = RunInfo("never_started", "None")
    /\ instance_info = Null
    /\ stderr_reject = ""
    /\ proc = 0
    /\ stdout_thread = 0
    /\ stderr_thread = 0
    /\ watch_thread = 0
    /\ child = [g \in Procs |-> NoChild]
    /\ wset = [w \in Sets |-> NoSet]
    /\ hpc = [h \in Handlers |-> "idle"]
    /\ hloc = [h \in Handlers |-> NoOp]
    /\ nops = 0
    /\ params_file = 1

\* A SockConn as constructed: no connection cached, nobody calls.
NoClient ==
    /\ conn = NoConn
    /\ req_lock = "free"
    /\ qpc = [c \in Clients |-> "idle"]
    /\ qloc = [c \in Clients |-> NoCall]
    /\ chan = [n \in 0..MaxLinks |-> NoChan]
    /\ nlinks = 0
    /\ ncalls = 0

\* gpio_service: settings["cache_expire"], in the units of time_ref
CACHE_EXPIRE == 2
HeaderDigits == 5

\* A cache item: (time_ref when created, value); fresh is FALSE for the item
\* of the start, (float("-inf"), None).
NoItem == [fresh |-> FALSE, t |-> 0, v |-> 0]

\* The locals of a handle_req: name, operation; item, the (cache_time, cached)
\* it read; at, the time_ref() of its test; reading; samples, the
\* peripheral.read() calls it made; ret, how it ended.
NoReq == [name |-> "none", operation |-> "none", item |-> NoItem, at |-> 0,
          reading |-> 0, samples |-> 0, ret |-> "none"]

\* gpio_service as loaded: nothing cached, no request in progress.
NoGpio ==
    /\ cache = [n \in Sensors |-> NoItem]
    /\ time_ref = 0
    /\ req_lock_g = "free"
    /\ gpc = [k \in Conns |-> "idle"]
    /\ gloc = [k \in Conns |-> NoReq]
    /\ nreads = 0

\* The characters of a message: a letter, a line feed, a digit.
Alphabet == {"a", "nl", "1"}

\* The strings given to out_pipe.
Messages == UNION {[1..n -> Alphabet] : n \in 0..MaxMsgLen}

DigitChars == <<"0", "1", "2", "3", "4", "5", "6", "7", "8", "9">>

RECURSIVE Pow10(_)
Pow10(e) == IF e = 0 THEN 1 ELSE 10 * Pow10(e - 1)

\* str(length).zfill(5)
zfill(length) ==
    [i \in 1..HeaderDigits |-> DigitChars[((length \div Pow10(HeaderDigits - i)) % 10) + 1]]

\* out_pipe: what it writes to stderr for output, the length in five digits
\* followed by output. (The characters of Alphabet are one byte each.)
out_pipe(output) == zfill(Len(output)) \o output

\* data[:5].isnumeric()
isnumeric(data) == \A i \in DOMAIN data : \E d \in DOMAIN DigitChars : DigitChars[d] = data[i]

\* int(length)
RECURSIVE ParseInt(_)
ParseInt(data) ==
    IF data = <<>> THEN 0
    ELSE 10 * ParseInt(SubSeq(data, 1, Len(data) - 1))
         + (CHOOSE d \in DOMAIN DigitChars : DigitChars[d] = data[Len(data)]) - 1

\* pipe.readline() returns once the pipe holds a line feed or is at end of file,
LineReady == errclosed \/ \E i \in DOMAIN errpipe : errpipe[i] = "nl"

\* and returns the characters up to the first line feed, it included, or all
\* that is left; "" at end of file.
readline ==
    IF \E i \in DOMAIN errpipe : errpipe[i] = "nl"
    THEN SubSeq(errpipe, 1, CHOOSE i \in DOMAIN errpipe :
                                /\ errpipe[i] = "nl"
                                /\ \A j \in 1..(i - 1) : errpipe[j] # "nl")
    ELSE errpipe

\* stderr_stream's locals before its first readline.
NoReader == [pc |-> "for", length |-> 0, content |-> <<>>, packets |-> <<>>, reject |-> <<>>]

\* Nothing written yet, the child alive.
NoWire ==
    /\ emitted = <<>>
    /\ errpipe = <<>>
    /\ errclosed = FALSE
    /\ reader = NoReader

\* The child calls out_pipe(output).
OutPipe(output) ==
    /\ ~errclosed
    /\ Len(emitted) < MaxMsgs
    /\ emitted' = Append(emitted, output)
    /\ errpipe' = errpipe \o out_pipe(output)
    /\ UNCHANGED <<errclosed, reader>>
    /\ UNCHANGED notWire

\* The child exits: its end of the pipe closes.
PipeExit ==
    /\ ~errclosed
    /\ errclosed' = TRUE
    /\ UNCHANGED <<emitted, errpipe, reader>>
    /\ UNCHANGED notWire

\* stderr_stream: for data in iter(pipe.readline, ""), and the test of the line.
ReadFor ==
    /\ reader.pc = "for"
    /\ LineReady
    /\ LET data == readline
       IN /\ errpipe' = SubSeq(errpipe, Len(data) + 1, Len(errpipe))
          /\ reader' =
                IF data = <<>> THEN [reader EXCEPT !.pc = "done"]
                ELSE IF Len(data) < HeaderDigits \/ ~isnumeric(SubSeq(data, 1, HeaderDigits))
                THEN [reader EXCEPT !.reject = @ \o data]
                ELSE [reader EXCEPT !.pc = "fill",
                                    !.length = ParseInt(SubSeq(data, 1, HeaderDigits)),
                                    !.content = SubSeq(data, HeaderDigits + 1, Len(data))]
    /\ UNCHANGED <<emitted, errclosed>>
    /\ UNCHANGED notWire

\* stderr_stream: while len(content) < length: content += pipe.readline()
ReadFill ==
    /\ reader.pc = "fill"
    /\ Len(reader.content) < reader.length
    /\ LineReady
    /\ LET data == readline
       IN /\ errpipe' = SubSeq(errpipe, Len(data) + 1, Len(errpipe))
          /\ reader' = [reader EXCEPT !.content = @ \o data]
    /\ UNCHANGED <<emitted, errclosed>>
    /\ UNCHANGED notWire

\* stderr_stream: content = content[:-1]; self.handle_packet(content)
ReadHandle ==
    /\ reader.pc = "fill"
    /\ Len(reader.content) >= reader.length
    /\ reader' = [reader EXCEPT !.pc = "for", !.length = 0, !.content = <<>>,
                                !.packets = Append(@, SubSeq(reader.content, 1,
                                                             Len(reader.content) - 1))]
    /\ UNCHANGED <<emitted, errpipe, errclosed>>
    /\ UNCHANGED notWire

\* The child writing and the supervisor's reader thread.
NextPipe ==
    \/ \E output \in Messages : OutPipe(output)
    \/ PipeExit
    \/ ReadFor
    \/ ReadFill
    \/ ReadHandle

(***************************************************************************)
(* TempManager.stop                                                        *)
(***************************************************************************)
Call(c, pc) == cpc' = [cpc EXCEPT ![c] = pc]

\* stop(): if self.is_running(), which run.py's stop() does not ask
StopCheck(c) ==
    /\ cpc[c] = "stop_check"
    /\ Call(c, IF variant = "run" \/ state # None THEN "stop_acq1" ELSE "stop_ret")
    /\ UNCHANGED <<variant, params, state, stop_lock, tick_lock, rpc, loc, peltier, fan, hist>>
    /\ UNCHANGED notLoop

\* stop(): self.stop_lock.acquire(), the signal
StopSignal(c) ==
    /\ cpc[c] = "stop_acq1"
    /\ ~stop_lock
    /\ stop_lock' = TRUE
    /\ Call(c, "stop_acq2")
    /\ UNCHANGED <<variant, params, state, tick_lock, rpc, loc, peltier, fan, hist>>
    /\ UNCHANGED notLoop

\* stop(): self.stop_lock.acquire(), the wait for the returned signal
StopWait(c) ==
    /\ cpc[c] = "stop_acq2"
    /\ ~stop_lock
    /\ stop_lock' = TRUE
    /\ Call(c, "stop_ret")
    /\ UNCHANGED <<variant, params, state, tick_lock, rpc, loc, peltier, fan, hist>>
    /\ UNCHANGED notLoop

(***************************************************************************)
(* core_run as a program: one thread runs manager.run, the main thread     *)
(* joins it and calls manager.stop on a KeyboardInterrupt                  *)
(***************************************************************************)
\* except KeyboardInterrupt: manager.stop()
MainInterrupt ==
    /\ cpc["main"] = "m_join"
    /\ Call("main", "stop_check")
    /\ UNCHANGED <<variant, params, state, stop_lock, tick_lock, rpc, loc, peltier, fan, hist>>
    /\ UNCHANGED notLoop

\* manager.stop() has returned: thread.join()
MainJoin ==
    /\ cpc["main"] = "stop_ret"
    /\ Call("main", "m_join2")
    /\ UNCHANGED <<variant, params, state, stop_lock, tick_lock, rpc, loc, peltier, fan, hist>>
    /\ UNCHANGED notLoop

\* thread.join() returns when the thread has ended.
MainDone ==
    /\ cpc["main"] \in {"m_join", "m_join2"}
    /\ rpc["r1"] \in {"done", "raised"}
    /\ Call("main", "m_done")
    /\ UNCHANGED <<variant, params, state, stop_lock, tick_lock, rpc, loc, peltier, fan, hist>>
    /\ UNCHANGED notLoop

Init ==
    /\ variant = "core_run"
    /\ params \in ParamChoices
    /\ state = None
    /\ stop_lock = FALSE
    /\ tick_lock = "free"
    /\ rpc = [r \in Runners |-> IF r = "r1" THEN "run_check" ELSE "idle"]
    /\ loc = [r \in Runners |-> NoLocals]
    /\ peltier \in BOOLEAN
    /\ fan \in BOOLEAN
    /\ cpc = [c \in Callers |-> IF c = "main" THEN "m_join" ELSE "idle"]
    /\ hist = NoHist
    /\ NoIface
    /\ NoStream
    /\ NoServer
    /\ NoClient
    /\ NoSuper
    /\ NoCopy
    /\ epipe = <<>>
    /\ NoGpio
    /\ NoWire

Next ==
    \/ \E r \in Runners : RunCheck(r)
    \/ \E r \in Runners : RunInit(r)
    \/ \E r \in Runners : TickStart(r)
    \/ \E r \in Runners : PeltierRead(r)
    \/ \E r \in Runners : PeltierIsOn(r)
    \/ \E r \in Runners : PeltierTurnOff(r)
    \/ \E r \in Runners : PeltierTurnOn(r)
    \/ \E r \in Runners : PeltierFail(r)
    \/ \E r \in Runners : FanIsOn(r)
    \/ \E r \in Runners : FanRead(r)
    \/ \E r \in Runners : FanTurnOff(r)
    \/ \E r \in Runners : FanTurnOn(r)
    \/ \E r \in Runners : FanFail(r)
    \/ \E r \in Runners : TickEnd(r)
    \/ \E r \in Runners : LoopCheck(r)
    \/ \E r \in Runners : LoopRelease(r)
    \/ \E r \in Runners : RunExit(r)
    \/ StopCheck("main")
    \/ StopSignal("main")
    \/ StopWait("main")
    \/ MainInterrupt
    \/ MainJoin
    \/ MainDone

Spec == Init /\ [][Next]_vars

(***************************************************************************)
(* run.py's TempManager, in the hands of a program that calls run() and    *)
(* stop() one after the other                                              *)
(***************************************************************************)
\* run.py, TempManager.__init__ with the default state, which is
\* State(phase = Phase.cool, last_peltier_on = 0)
InitRun ==
    /\ variant = "run"
    /\ params \in ParamChoices
    /\ state = <<initial_state>>
    /\ stop_lock = FALSE
    /\ tick_lock = "free"
    /\ rpc = [r \in Runners |-> "idle"]
    /\ loc = [r \in Runners |-> NoLocals]
    /\ peltier \in BOOLEAN
    /\ fan \in BOOLEAN
    /\ cpc = [c \in Callers |-> "idle"]
    /\ hist = NoHist
    /\ NoIface
    /\ NoStream
    /\ NoServer
    /\ NoClient
    /\ NoSuper
    /\ NoCopy
    /\ epipe = <<>>
    /\ NoGpio
    /\ NoWire

\* A thread calls run() when no run() is in progress.
RunCall(r) ==
    /\ rpc[r] = "idle"
    /\ \A q \in Runners : rpc[q] \in {"idle", "done", "raised"}
    /\ Goto(r, "run_check")
    /\ UNCHANGED <<variant, params, state, stop_lock, tick_lock, loc, peltier, fan, cpc, hist>>
    /\ UNCHANGED notLoop

\* A thread calls stop() while a run() is in progress.
StopCall(c) ==
    /\ cpc[c] = "idle"
    /\ \E q \in Runners : rpc[q] \notin {"idle", "done", "raised"}
    /\ Call(c, "stop_check")
    /\ UNCHANGED <<variant, params, state, stop_lock, tick_lock, rpc, loc, peltier, fan, hist>>
    /\ UNCHANGED notLoop

NextRun ==
    \/ \E r \in Runners : RunCall(r)
    \/ \E r \in Runners : RunCheck(r)
    \/ \E r \in Runners : RunInit(r)
    \/ \E r \in Runners : TickStart(r)
    \/ \E r \in Runners : PeltierRead(r)
    \/ \E r \in Runners : PeltierIsOn(r)
    \/ \E r \in Runners : PeltierTurnOff(r)
    \/ \E r \in Runners : PeltierTurnOn(r)
    \/ \E r \in Runners : PeltierFail(r)
    \/ \E r \in Runners : FanIsOn(r)
    \/ \E r \in Runners : FanRead(r)
    \/ \E r \in Runners : FanTurnOff(r)
    \/ \E r \in Runners : FanTurnOn(r)
    \/ \E r \in Runners : FanFail(r)
    \/ \E r \in Runners : TickEnd(r)
    \/ \E r \in Runners : LoopCheck(r)
    \/ \E r \in Runners : LoopRelease(r)
    \/ \E r \in Runners : RunExit(r)
    \/ \E c \in Clients : StopCall(c)
    \/ \E c \in Clients : StopCheck(c)
    \/ \E c \in Clients : StopSignal(c)
    \/ \E c \in Clients : StopWait(c)

SpecRun == InitRun /\ [][NextRun]_vars


(***************************************************************************)
(* Interface (interface.py) around manager.py's TempManager, its methods   *)
(* called from any number of threads                                       *)
(***************************************************************************)
SetArgs(c, a) == cloc' = [cloc EXCEPT ![c] = a]

\* A thread object start_manager may create: one that never existed, or one that
\* has ended and that Interface.thread no longer names.
FreeThread(r) == rpc[r] = "idle" \/ (rpc[r] \in {"done", "raised"} /\ ithread # r)

\* start_manager: if self.is_running(): raise ValueError (no step when it raises)
StartCheck(c) ==
    /\ cpc[c] = "idle"
    /\ ithread = "None"
    /\ Call(c, "start_new")
    /\ UNCHANGED <<variant, params, state, stop_lock, tick_lock, rpc, loc, peltier, fan, hist>>
    /\ UNCHANGED <<ifaceVars, notIface>>

\* start_manager: self.thread = threading.Thread(target = self.instance.run)
StartNew(c) ==
    /\ cpc[c] = "start_new"
    /\ \E r \in Runners :
        /\ FreeThread(r)
        /\ ithread' = r
        /\ rpc' = [rpc EXCEPT ![r] = "created"]
    /\ Call(c, "start_go")
    /\ UNCHANGED <<variant, params, state, stop_lock, tick_lock, loc, peltier, fan, hist>>
    /\ UNCHANGED <<param_lock, pfile, cloc, notIface>>

\* start_manager: self.thread.start(), which raises on a thread started before
\* and on None
StartGo(c) ==
    /\ cpc[c] = "start_go"
    /\ rpc' = IF ithread # "None" /\ rpc[ithread] = "created"
              THEN [rpc EXCEPT ![ithread] = "run_check"]
              ELSE rpc
    /\ Call(c, "idle")
    /\ UNCHANGED <<variant, params, state, stop_lock, tick_lock, loc, peltier, fan, hist>>
    /\ UNCHANGED <<ifaceVars, notIface>>

\* stop_manager: if not self.instance.is_running(): raise ValueError (no step when
\* it raises); self.instance.stop()
StopManagerCheck(c) ==
    /\ cpc[c] = "idle"
    /\ state # None
    /\ Call(c, "stop_check")
    /\ UNCHANGED <<variant, params, state, stop_lock, tick_lock, rpc, loc, peltier, fan, hist>>
    /\ UNCHANGED <<ifaceVars, notIface>>

\* stop_manager: self.thread.join() is called on what self.thread names now; it
\* raises on None and on a thread that was not started.
StopManagerJoin(c) ==
    /\ cpc[c] = "stop_ret"
    /\ IF ithread = "None" \/ rpc[ithread] = "created"
       THEN Call(c, "idle") /\ UNCHANGED cloc
       ELSE Call(c, "join") /\ SetArgs(c, [cloc[c] EXCEPT !.t = ithread])
    /\ UNCHANGED <<variant, params, state, stop_lock, tick_lock, rpc, loc, peltier, fan, hist>>
    /\ UNCHANGED <<ithread, param_lock, pfile, notIface>>

\* stop_manager: join() returns when the thread has ended; self.thread = None
StopManagerClear(c) ==
    /\ cpc[c] = "join"
    /\ rpc[cloc[c].t] \in {"done", "raised"}
    /\ ithread' = "None"
    /\ SetArgs(c, NoArgs)
    /\ Call(c, "idle")
    /\ UNCHANGED <<variant, params, state, stop_lock, tick_lock, rpc, loc, peltier, fan, hist>>
    /\ UNCHANGED <<param_lock, pfile, notIface>>

\* set_params: with self.param_lock
SetParamsLock(c) ==
    /\ cpc[c] = "idle"
    /\ param_lock = "free"
    /\ param_lock' = c
    /\ \E d \in ParamInputs : SetArgs(c, [cloc[c] EXCEPT !.d = d])
    /\ Call(c, "sp_check")
    /\ UNCHANGED <<variant, params, state, stop_lock, tick_lock, rpc, loc, peltier, fan, hist>>
    /\ UNCHANGED <<ithread, pfile, notIface>>

\* What set_params lets through to the assignment: Params(**params) does not
\* raise, validate_params does not raise, update_params finds no run.
SetParamsAccepts(d) ==
    /\ params_keys_ok(d)
    /\ validate_params(d)
    /\ state = None

\* set_params: Params(**params), validate_params, update_params' is_running();
\* an exception leaves the with block
SetParamsCheck(c) ==
    /\ cpc[c] = "sp_check"
    /\ IF SetParamsAccepts(cloc[c].d)
       THEN /\ Call(c, "sp_assign")
            /\ UNCHANGED <<param_lock, cloc>>
       ELSE /\ Call(c, "idle")
            /\ param_lock' = "free"
            /\ SetArgs(c, NoArgs)
    /\ UNCHANGED <<variant, params, state, stop_lock, tick_lock, rpc, loc, peltier, fan, hist>>
    /\ UNCHANGED <<ithread, pfile, notIface>>

\* update_params: self.params = Params(**asdict(params))
SetParamsAssign(c) ==
    /\ cpc[c] = "sp_assign"
    /\ params' = ToParams(cloc[c].d)
    /\ Call(c, "sp_write")
    /\ UNCHANGED <<variant, state, stop_lock, tick_lock, rpc, loc, peltier, fan, hist>>
    /\ UNCHANGED <<ifaceVars, notIface>>

\* set_params: write_params_file(params); the with block ends
SetParamsWrite(c) ==
    /\ cpc[c] = "sp_write"
    /\ pfile' = ToParams(cloc[c].d)
    /\ param_lock' = "free"
    /\ SetArgs(c, NoArgs)
    /\ Call(c, "idle")
    /\ UNCHANGED <<variant, params, state, stop_lock, tick_lock, rpc, loc, peltier, fan, hist>>
    /\ UNCHANGED <<ithread, notIface>>

\* interface = Interface(): the params are read from the file, nothing runs; the
\* relays are off as gpio_service sets them up.
InitIface ==
    /\ variant = "manager"
    /\ params = [low |-> 200, high |-> 240, fan_retain |-> 5, tick_time |-> 5]
    /\ state = None
    /\ stop_lock = FALSE
    /\ tick_lock = "free"
    /\ rpc = [r \in Runners |-> "idle"]
    /\ loc = [r \in Runners |-> NoLocals]
    /\ peltier = FALSE
    /\ fan = FALSE
    /\ cpc = [c \in Callers |-> "idle"]
    /\ hist = NoHist
    /\ NoIface
    /\ NoStream
    /\ NoServer
    /\ NoClient
    /\ NoSuper
    /\ NoCopy
    /\ epipe = <<>>
    /\ NoGpio
    /\ NoWire

\* Two threads start and stop the manager; gpio_service answers every request.
NextIface ==
    \/ \E r \in Runners : RunCheck(r)
    \/ \E r \in Runners : RunInit(r)
    \/ \E r \in Runners : TickStart(r)
    \/ \E r \in Runners : PeltierRead(r)
    \/ \E r \in Runners : PeltierIsOn(r)
    \/ \E r \in Runners : PeltierTurnOff(r)
    \/ \E r \in Runners : PeltierTurnOn(r)
    \/ \E r \in Runners : FanIsOn(r)
    \/ \E r \in Runners : FanRead(r)
    \/ \E r \in Runners : FanTurnOff(r)
    \/ \E r \in Runners : FanTurnOn(r)
    \/ \E r \in Runners : TickEnd(r)
    \/ \E r \in Runners : LoopCheck(r)
    \/ \E r \in Runners : LoopRelease(r)
    \/ \E r \in Runners : RunExit(r)
    \/ \E c \in Clients : StopCheck(c)
    \/ \E c \in Clients : StopSignal(c)
    \/ \E c \in Clients : StopWait(c)
    \/ \E c \in Clients : StartCheck(c)
    \/ \E c \in Clients : StartNew(c)
    \/ \E c \in Clients : StartGo(c)
    \/ \E c \in Clients : StopManagerCheck(c)
    \/ \E c \in Clients : StopManagerJoin(c)
    \/ \E c \in Clients : StopManagerClear(c)

SpecIface == InitIface /\ [][NextIface]_vars

\* One thread starts and stops the manager while another sets the params.
NextParams ==
    \/ \E r \in Runners : RunCheck(r)
    \/ \E r \in Runners : RunInit(r)
    \/ \E r \in Runners : TickStart(r)
    \/ \E r \in Runners : PeltierRead(r)
    \/ \E r \in Runners : PeltierIsOn(r)
    \/ \E r \in Runners : PeltierTurnOff(r)
    \/ \E r \in Runners : PeltierTurnOn(r)
    \/ \E r \in Runners : FanIsOn(r)
    \/ \E r \in Runners : FanRead(r)
    \/ \E r \in Runners : FanTurnOff(r)
    \/ \E r \in Runners : FanTurnOn(r)
    \/ \E r \in Runners : TickEnd(r)
    \/ \E r \in Runners : LoopCheck(r)
    \/ \E r \in Runners : LoopRelease(r)
    \/ \E r \in Runners : RunExit(r)
    \/ StopCheck("c1")
    \/ StopSignal("c1")
    \/ StopWait("c1")
    \/ StartCheck("c1")
    \/ StartNew("c1")
    \/ StartGo("c1")
    \/ StopManagerCheck("c1")
    \/ StopManagerJoin("c1")
    \/ StopManagerClear("c1")
    \/ SetParamsLock("c2")
    \/ SetParamsCheck("c2")
    \/ SetParamsAssign("c2")
    \/ SetParamsWrite("c2")

SpecParams == InitIface /\ [][NextParams]_vars

(***************************************************************************)
(* TempManager.copy_state of manager.py, called while others start and     *)
(* stop the manager                                                        *)
(***************************************************************************)
\* A tick of some thread is between its first and its last step.
MidTick == \E r \in Runners : rpc[r] \in {"p_read", "p_ison", "p_off", "p_on", "f_ison",
                                           "f_fan", "f_off", "f_on", "tick_end"}

\* with self.tick_lock: copy_state takes the lock the ticks take.
CopyLockFree(l) == l = "free"

\* copy_state is called and gets tick_lock.
CopyLock(c) ==
    /\ cpc[c] = "idle"
    /\ CopyLockFree(tick_lock)
    /\ tick_lock' = IF tick_lock = "free" THEN c ELSE tick_lock
    /\ cpc' = [cpc EXCEPT ![c] = "cs_check"]
    /\ snap' = [snap EXCEPT ![c] = NoSnap]
    /\ UNCHANGED <<variant, params, state, stop_lock, rpc, loc, peltier, fan, hist>>
    /\ UNCHANGED notCopy

\* tick_lock as copy_state leaves it at the end of its with block.
CopyRelease(c) == IF tick_lock = c THEN "free" ELSE tick_lock

\* if self.state is None: return None.
CopyCheck(c) ==
    /\ cpc[c] = "cs_check"
    /\ IF state = None
         THEN /\ snap' = [snap EXCEPT ![c].ret = "None"]
              /\ cpc' = [cpc EXCEPT ![c] = "idle"]
              /\ tick_lock' = CopyRelease(c)
         ELSE /\ cpc' = [cpc EXCEPT ![c] = "cs_copy"]
              /\ UNCHANGED <<snap, tick_lock>>
    /\ UNCHANGED <<variant, params, state, stop_lock, rpc, loc, peltier, fan, hist>>
    /\ UNCHANGED notCopy

\* return State(**asdict(self.state)): self.state is read again, and asdict of
\* None raises TypeError.
CopyRead(c) ==
    /\ cpc[c] = "cs_copy"
    /\ snap' = [snap EXCEPT ![c] =
                    IF state = None
                    THEN [ret |-> "TypeError", val |-> initial_state, mid |-> MidTick]
                    ELSE [ret |-> "State", val |-> Cur, mid |-> MidTick]]
    /\ cpc' = [cpc EXCEPT ![c] = "idle"]
    /\ tick_lock' = CopyRelease(c)
    /\ UNCHANGED <<variant, params, state, stop_lock, rpc, loc, peltier, fan, hist>>
    /\ UNCHANGED notCopy

\* One thread starts and stops the manager, another reads its state.
NextCopy ==
    \/ \E r \in Runners : RunCheck(r)
    \/ \E r \in Runners : RunInit(r)
    \/ \E r \in Runners : TickStart(r)
    \/ \E r \in Runners : PeltierRead(r)
    \/ \E r \in Runners : PeltierIsOn(r)
    \/ \E r \in Runners : PeltierTurnOff(r)
    \/ \E r \in Runners : PeltierTurnOn(r)
    \/ \E r \in Runners : FanIsOn(r)
    \/ \E r \in Runners : FanRead(r)
    \/ \E r \in Runners : FanTurnOff(r)
    \/ \E r \in Runners : FanTurnOn(r)
    \/ \E r \in Runners : TickEnd(r)
    \/ \E r \in Runners : LoopCheck(r)
    \/ \E r \in Runners : LoopRelease(r)
    \/ \E r \in Runners : RunExit(r)
    \/ StopCheck("c1")
    \/ StopSignal("c1")
    \/ StopWait("c1")
    \/ StartCheck("c1")
    \/ StartNew("c1")
    \/ StartGo("c1")
    \/ StopManagerCheck("c1")
    \/ StopManagerJoin("c1")
    \/ StopManagerClear("c1")
    \/ CopyLock("c2")
    \/ CopyCheck("c2")
    \/ CopyRead("c2")

SpecCopy == InitIface /\ [][NextCopy]_vars


(***************************************************************************)
(* sock_api's framing: send_packet writes to a TCP stream, read_packet     *)
(* reads from it.  A bytes value is written as its runs, <<b, n>> being n  *)
(* bytes b in a row, with no two neighbouring runs of the same byte: a     *)
(* payload of 2^24 bytes is one run.                                       *)
(***************************************************************************)
\* The header is 3 bytes, big endian.
HeaderLen == 3

ByteBase == 256

\* The lengths to_bytes(3, "big") can write are those below this one.
LenLimit == ByteBase ^ HeaderLen

Byte1(b) == <<<<b, 1>>>>

\* len(data)
RECURSIVE BLen(_)
BLen(x) == IF x = <<>> THEN 0 ELSE x[1][2] + BLen(Tail(x))

\* x + y
BCat(x, y) ==
    IF x = <<>> THEN y
    ELSE IF y = <<>> THEN x
    ELSE IF x[Len(x)][1] = y[1][1]
         THEN SubSeq(x, 1, Len(x) - 1) \o <<<<y[1][1], x[Len(x)][2] + y[1][2]>>>> \o Tail(y)
         ELSE x \o y

\* x[:k]
RECURSIVE BTake(_, _)
BTake(x, k) ==
    IF k = 0 \/ x = <<>> THEN <<>>
    ELSE IF x[1][2] <= k THEN <<x[1]>> \o BTake(Tail(x), k - x[1][2])
    ELSE <<<<x[1][1], k>>>>

\* x[k:]
RECURSIVE BDrop(_, _)
BDrop(x, k) ==
    IF k = 0 \/ x = <<>> THEN x
    ELSE IF x[1][2] <= k THEN BDrop(Tail(x), k - x[1][2])
    ELSE <<<<x[1][1], x[1][2] - k>>>> \o Tail(x)

\* x[i - 1], for 1 <= i <= len(x)
ByteAt(x, i) == BDrop(x, i - 1)[1][1]

Min(a, b) == IF a <= b THEN a ELSE b

\* n.to_bytes(w, "big") raises OverflowError unless n fits in w bytes.
fits(n, w) == n < ByteBase ^ w

\* n.to_bytes(w, "big"), for an n that fits
RECURSIVE to_bytes(_, _)
to_bytes(n, w) ==
    IF w = 0 THEN <<>>
    ELSE BCat(to_bytes(n \div ByteBase, w - 1), Byte1(n % ByteBase))

\* int.from_bytes(x, "big")
RECURSIVE from_bytes(_)
from_bytes(x) ==
    IF x = <<>> THEN 0
    ELSE from_bytes(BTake(x, BLen(x) - 1)) * ByteBase + ByteAt(x, BLen(x))

\* send_packet: body = length_bytes + data
Frame(data) == BCat(to_bytes(BLen(data), HeaderLen), data)

\* The payloads given to send_packet: empty; three bytes that read as a header;
\* 300 bytes; the longest payload a header can announce; one byte more.
Payloads ==
    { <<>>,
      <<<<0, 2>>, <<1, 1>>>>,
      <<<<9, 300>>>>,
      <<<<5, LenLimit - 1>>>>,
      <<<<5, LenLimit>>>> }

\* How many bytes a recv may return when up to m are there and asked for.
RecvSizes(m) == IF m <= MaxSplit THEN 1..m ELSE {m \div 2, m - 1, m}

\* How many bytes of an n-byte body a sendall that fails may have written.
CutSizes(n) ==
    IF n - 1 <= MaxSplit THEN 0..(n - 1)
    ELSE 0..HeaderLen \cup {n - 1}

RecvLimit_length(length, have) == length

\* read_bytes: sock.recv(length - len(data))
RecvLimit(length, have) == length - have

OnEmpty_break(r) == [r EXCEPT !.want = BLen(r.data)]

\* read_bytes: if not new: raise ClosedException()
OnEmpty(r) == [r EXCEPT !.pc = "ClosedException"]

\* split: a recv of this read_packet has returned fewer bytes than were asked for.
NoRead == [pc |-> "idle", stage |-> "header", want |-> 0, data |-> <<>>, split |-> FALSE]

\* send_packet(sock, data): OverflowError before anything is written, or
\* sendall writes the whole body.
SendPacket(data) ==
    /\ wstate = "open"
    /\ IF fits(BLen(data), HeaderLen)
       THEN /\ Len(sent) < MaxPackets
            /\ wire' = BCat(wire, Frame(data))
            /\ sent' = Append(sent, data)
            /\ send_last' = "ok"
       ELSE /\ send_last' = "OverflowError"
            /\ UNCHANGED <<wire, sent>>
    /\ UNCHANGED <<wstate, rd, got, trunc, recv_last>>
    /\ UNCHANGED notFrame

\* send_packet(sock, data): sendall raises after it has written a part of the
\* body; the connection is gone, the reader meets the end of the stream or an
\* error.
SendFail(data) ==
    /\ wstate = "open"
    /\ fits(BLen(data), HeaderLen)
    /\ \E k \in CutSizes(BLen(Frame(data))) :
        /\ wire' = BCat(wire, BTake(Frame(data), k))
        /\ trunc' = BTake(Frame(data), k)
    /\ \E w \in {"closed", "reset"} : wstate' = w
    /\ send_last' = "ClosedException"
    /\ UNCHANGED <<rd, sent, got, recv_last>>
    /\ UNCHANGED notFrame

\* The writing side closes the connection.
CloseWriter ==
    /\ wstate = "open"
    /\ wstate' = "closed"
    /\ UNCHANGED <<wire, rd, sent, got, trunc, recv_last, send_last>>
    /\ UNCHANGED notFrame

\* The connection breaks.
ResetConn ==
    /\ wstate = "open"
    /\ wstate' = "reset"
    /\ UNCHANGED <<wire, rd, sent, got, trunc, recv_last, send_last>>
    /\ UNCHANGED notFrame

\* read_packet(sock): length_bytes = read_bytes(sock, 3)
ReadPacket ==
    /\ rd.pc = "idle"
    /\ rd' = [NoRead EXCEPT !.pc = "read_bytes", !.want = HeaderLen]
    /\ UNCHANGED <<wire, wstate, sent, got, trunc, recv_last, send_last>>
    /\ UNCHANGED notFrame

\* read_bytes: while len(data) < length
Reading_bytes == rd.pc = "read_bytes" /\ BLen(rd.data) < rd.want

\* read_bytes: new = sock.recv(length - len(data)); data += new
Recv ==
    /\ Reading_bytes
    /\ wire # <<>>
    /\ \E k \in RecvSizes(Min(RecvLimit(rd.want, BLen(rd.data)), BLen(wire))) :
        /\ rd' = [rd EXCEPT !.data = BCat(@, BTake(wire, k)),
                             !.split = @ \/ k < RecvLimit(rd.want, BLen(rd.data))]
        /\ wire' = BDrop(wire, k)
    /\ recv_last' = "data"
    /\ UNCHANGED <<wstate, sent, got, trunc, send_last>>
    /\ UNCHANGED notFrame

\* read_bytes: recv returns b"", the writer has closed and all it wrote is read
RecvEmpty ==
    /\ Reading_bytes
    /\ wire = <<>>
    /\ wstate = "closed"
    /\ rd' = OnEmpty(rd)
    /\ recv_last' = "eof"
    /\ UNCHANGED <<wire, wstate, sent, got, trunc, send_last>>
    /\ UNCHANGED notFrame

\* read_bytes: recv raises BrokenPipeError, ConnectionResetError or OSError
RecvError ==
    /\ Reading_bytes
    /\ wstate = "reset"
    /\ rd' = [rd EXCEPT !.pc = "ClosedException"]
    /\ recv_last' = "error"
    /\ UNCHANGED <<wire, wstate, sent, got, trunc, send_last>>
    /\ UNCHANGED notFrame

\* read_bytes returns data: after the header, length = int.from_bytes(...) and
\* read_bytes(sock, length) begins; after the payload, read_packet returns it.
ReadBytesReturn ==
    /\ rd.pc = "read_bytes"
    /\ BLen(rd.data) >= rd.want
    /\ IF rd.stage = "header"
       THEN /\ rd' = [rd EXCEPT !.stage = "payload", !.want = from_bytes(rd.data),
                                !.data = <<>>]
            /\ got' = got
       ELSE /\ rd' = NoRead
            /\ got' = Append(got, [data |-> rd.data, split |-> rd.split])
    /\ UNCHANGED <<wire, wstate, sent, trunc, recv_last, send_last>>
    /\ UNCHANGED notFrame

\* One connection, nothing written yet; no manager is in use.
InitFrame ==
    /\ variant = "core_run"
    /\ params = [low |-> 200, high |-> 240, fan_retain |-> 30, tick_time |-> 5]
    /\ state = None
    /\ stop_lock = FALSE
    /\ tick_lock = "free"
    /\ rpc = [r \in Runners |-> "idle"]
    /\ loc = [r \in Runners |-> NoLocals]
    /\ peltier = FALSE
    /\ fan = FALSE
    /\ cpc = [c \in Callers |-> "idle"]
    /\ hist = NoHist
    /\ NoIface
    /\ NoStream
    /\ NoServer
    /\ NoClient
    /\ NoSuper
    /\ NoCopy
    /\ epipe = <<>>
    /\ NoGpio
    /\ NoWire

NextFrame ==
    \/ \E data \in Payloads : SendPacket(data)
    \/ \E data \in Payloads : SendFail(data)
    \/ CloseWriter
    \/ ResetConn
    \/ ReadPacket
    \/ Recv
    \/ RecvEmpty
    \/ RecvError
    \/ ReadBytesReturn

SpecFrame == InitFrame /\ [][NextFrame]_vars


(***************************************************************************)
(* SockServer (sock_api.py) with gpio_service's handler: the accept loop,  *)
(* one conn_manager thread per connection, close().  Frames are whole      *)
(* here: a request frame is its decoded body, a response frame the value   *)
(* sent.                                                                   *)
(***************************************************************************)
\* handle_req(req_body, addr): what it returns or raises, the relays being p
\* (peltier) and f (fan).  A sensor's read returns a temperature, or a value of
\* some other type, or raises.
handle_req(req, p, f) ==
    IF ~({"name", "operation"} \subseteq DOMAIN req) THEN {Raise("SyntaxError")}
    ELSE IF req.name \notin Sensors \cup Devices THEN {Raise("LookupError")}
    ELSE IF req.name \in Sensors
         THEN IF req.operation = "read"
              THEN {Value(Temp(t)) : t \in Readings} \cup {Value(Opaque), Raise("OSError")}
              ELSE {Raise("SyntaxError")}
    ELSE IF req.operation = "is_on" THEN {Value(Bool(IF req.name = "peltier" THEN p ELSE f))}
    ELSE IF req.operation \in {"turn_on", "turn_off"} THEN {Value(Ok)}
    ELSE {Raise("SyntaxError")}

\* The relay name after handle_req has served req, on being its state before.
RelayAfter(req, name, on) ==
    IF /\ {"name", "operation"} \subseteq DOMAIN req
       /\ req.name = name
       /\ req.operation \in {"turn_on", "turn_off"}
    THEN req.operation = "turn_on"
    ELSE on

ErrorResponse_bare(e) == [kind |-> "error", text |-> <<e>>]

\* conn_manager: f"Internal error {repr(e)}."
ErrorResponse(e) == [kind |-> "error", text |-> <<"Internal error", e>>]

OnEncodeError_skip(k) == [spc EXCEPT ![k] = "get_request"]

\* conn_manager: send_response(response) raises inside the try, the except
\* clause takes over.
OnEncodeError(k) == [spc EXCEPT ![k] = "send_error"]

\* The request conn_manager is serving on connection k.
Request(k) == reqs[k][Len(reqs[k])]

ReqsSent == Len(inq["k1"]) + Len(reqs["k1"]) + Len(inq["k2"]) + Len(reqs["k2"])

\* A client connects: the connection waits to be accepted.
ClientConnect(k) ==
    /\ link[k] = "none"
    /\ lsock = "listening"
    /\ link' = [link EXCEPT ![k] = "backlog"]
    /\ UNCHANGED <<inq, spc, pend, reqs, resps, lsock, apc, acc, threads, clpc, cidx>>
    /\ UNCHANGED <<peltier, fan, notSrv>>

\* A client sends a request frame.
ClientSend(k, req) ==
    /\ link[k] \in {"backlog", "open"}
    /\ ReqsSent < MaxReqs
    /\ inq' = [inq EXCEPT ![k] = Append(@, req)]
    /\ UNCHANGED <<link, spc, pend, reqs, resps, lsock, apc, acc, threads, clpc, cidx>>
    /\ UNCHANGED <<peltier, fan, notSrv>>

\* A client closes its connection, or disappears.
ClientClose(k) ==
    /\ link[k] \in {"backlog", "open"}
    /\ link' = [link EXCEPT ![k] = "peer_closed"]
    /\ UNCHANGED <<inq, spc, pend, reqs, resps, lsock, apc, acc, threads, clpc, cidx>>
    /\ UNCHANGED <<peltier, fan, notSrv>>

\* run(): conn, addr = self.sock.accept(); conn_obj = self.Conn(conn, addr);
\* handler_thread = threading.Thread(...)
Accept(k) ==
    /\ apc = "accept"
    /\ lsock = "listening"
    /\ link[k] \in {"backlog", "peer_closed"}
    /\ spc[k] = "none"
    /\ acc = "none"
    /\ \A i \in 1..Len(threads) : threads[i] # k
    /\ link' = [link EXCEPT ![k] = IF @ = "backlog" THEN "open" ELSE @]
    /\ acc' = k
    /\ apc' = "start"
    /\ UNCHANGED <<inq, spc, pend, reqs, resps, lsock, threads, clpc, cidx>>
    /\ UNCHANGED <<peltier, fan, notSrv>>

\* run(): accept raises on the closed socket, the thread of run() ends.
AcceptFails ==
    /\ apc = "accept"
    /\ lsock = "closed"
    /\ apc' = "died"
    /\ UNCHANGED <<link, inq, spc, pend, reqs, resps, lsock, acc, threads, clpc, cidx>>
    /\ UNCHANGED <<peltier, fan, notSrv>>

\* run(): handler_thread.start()
StartThread ==
    /\ apc = "start"
    /\ spc' = [spc EXCEPT ![acc] = "get_request"]
    /\ apc' = "append"
    /\ UNCHANGED <<link, inq, pend, reqs, resps, lsock, acc, threads, clpc, cidx>>
    /\ UNCHANGED <<peltier, fan, notSrv>>

\* run(): self.threads.append((handler_thread, conn))
AppendThread ==
    /\ apc = "append"
    /\ threads' = Append(threads, acc)
    /\ acc' = "none"
    /\ apc' = "accept"
    /\ UNCHANGED <<link, inq, spc, pend, reqs, resps, lsock, clpc, cidx>>
    /\ UNCHANGED <<peltier, fan, notSrv>>

\* conn_manager: request = conn.get_request() returns a request; json.loads
\* raises on a frame that is not JSON, which nothing catches.
GetRequest(k) ==
    /\ spc[k] = "get_request"
    /\ link[k] \in {"open", "peer_closed"}
    /\ inq[k] # <<>>
    /\ reqs' = [reqs EXCEPT ![k] = Append(@, Head(inq[k]))]
    /\ inq' = [inq EXCEPT ![k] = Tail(@)]
    /\ spc' = [spc EXCEPT ![k] = IF "malformed" \in DOMAIN Head(inq[k]) THEN "died"
                                 ELSE "handle"]
    /\ UNCHANGED <<link, pend, resps, lsock, apc, acc, threads, clpc, cidx>>
    /\ UNCHANGED <<peltier, fan, notSrv>>

\* conn_manager: get_request raises ClosedException (the peer has closed and
\* all it sent is read, or close() has closed the connection); break
GetRequestClosed(k) ==
    /\ spc[k] = "get_request"
    /\ \/ link[k] = "peer_closed" /\ inq[k] = <<>>
       \/ link[k] \in {"broken", "srv_closed"}
    /\ spc' = [spc EXCEPT ![k] = "ended"]
    /\ UNCHANGED <<link, inq, pend, reqs, resps, lsock, apc, acc, threads, clpc, cidx>>
    /\ UNCHANGED <<peltier, fan, notSrv>>

\* conn_manager: response = self.handler_fn(request, conn.addr)
Handle(k) ==
    /\ spc[k] = "handle"
    /\ \E r \in handle_req(Request(k), peltier, fan) :
        /\ pend' = [pend EXCEPT ![k] = r]
        /\ spc' = [spc EXCEPT ![k] = IF r.kind = "raise" THEN "send_error"
                                     ELSE "send_response"]
        /\ peltier' = IF r.kind = "value" THEN RelayAfter(Request(k), "peltier", peltier)
                      ELSE peltier
        /\ fan' = IF r.kind = "value" THEN RelayAfter(Request(k), "fan", fan) ELSE fan
    /\ UNCHANGED <<link, inq, reqs, resps, lsock, apc, acc, threads, clpc, cidx>>
    /\ UNCHANGED notSrv

\* What a send on connection k may do: on an open connection it writes the
\* frame; after the peer has closed it writes into the void or raises; once a
\* send has raised, and on a connection close() has closed, it raises.
SendResults(k) ==
    IF link[k] = "open" THEN {"sent"}
    ELSE IF link[k] = "peer_closed" THEN {"sent", "ClosedException"}
    ELSE {"ClosedException"}

\* conn_manager: conn.send_response(response)
SendResponse(k) ==
    /\ spc[k] = "send_response"
    /\ IF pend[k].v = Opaque
       THEN /\ spc' = OnEncodeError(k)
            /\ pend' = [pend EXCEPT ![k] = Raise("TypeError")]
            /\ UNCHANGED resps
       ELSE \E o \in SendResults(k) :
            IF o = "sent"
            THEN /\ resps' = [resps EXCEPT ![k] = Append(@, pend[k])]
                 /\ spc' = [spc EXCEPT ![k] = "get_request"]
                 /\ pend' = [pend EXCEPT ![k] = NoPend]
            ELSE /\ spc' = [spc EXCEPT ![k] = "send_error"]
                 /\ pend' = [pend EXCEPT ![k] = Raise("ClosedException")]
                 /\ UNCHANGED resps
    /\ link' = [link EXCEPT ![k] = IF @ = "peer_closed" /\ spc'[k] = "send_error"
                                       /\ pend'[k].e = "ClosedException"
                                    THEN "broken" ELSE @]
    /\ UNCHANGED <<inq, reqs, lsock, apc, acc, threads, clpc, cidx>>
    /\ UNCHANGED <<peltier, fan, notSrv>>

\* conn_manager: conn.send_response(f"Internal error {repr(e)}."), in the except
\* clause: an exception it raises ends the thread.
SendError(k) ==
    /\ spc[k] = "send_error"
    /\ \E o \in SendResults(k) :
        IF o = "sent"
        THEN /\ resps' = [resps EXCEPT ![k] = Append(@, ErrorResponse(pend[k].e))]
             /\ spc' = [spc EXCEPT ![k] = "get_request"]
        ELSE /\ spc' = [spc EXCEPT ![k] = "died"]
             /\ UNCHANGED resps
    /\ pend' = [pend EXCEPT ![k] = NoPend]
    /\ UNCHANGED <<link, inq, reqs, lsock, apc, acc, threads, clpc, cidx>>
    /\ UNCHANGED <<peltier, fan, notSrv>>

\* close(): self.sock.close()
CloseListener ==
    /\ clpc = "idle"
    /\ lsock' = "closed"
    /\ clpc' = "for"
    /\ cidx' = 1
    /\ UNCHANGED <<link, inq, spc, pend, reqs, resps, apc, acc, threads>>
    /\ UNCHANGED <<peltier, fan, notSrv>>

\* close(): for thread, conn in self.threads: conn.close(); the loop ends when
\* the list, as it is by then, is exhausted.
CloseConn ==
    /\ clpc = "for"
    /\ IF cidx <= Len(threads)
       THEN /\ link' = [link EXCEPT ![threads[cidx]] = "srv_closed"]
            /\ clpc' = "join"
       ELSE /\ clpc' = "returned"
            /\ UNCHANGED link
    /\ UNCHANGED <<inq, spc, pend, reqs, resps, lsock, apc, acc, threads, cidx>>
    /\ UNCHANGED <<peltier, fan, notSrv>>

\* close(): thread.join() returns when the thread has ended.
CloseJoin ==
    /\ clpc = "join"
    /\ spc[threads[cidx]] \in {"ended", "died"}
    /\ cidx' = cidx + 1
    /\ clpc' = "for"
    /\ UNCHANGED <<link, inq, spc, pend, reqs, resps, lsock, apc, acc, threads>>
    /\ UNCHANGED <<peltier, fan, notSrv>>

\* gpio_service: server.run() listens, the relays are off as set up.
InitServe ==
    /\ variant = "core_run"
    /\ params = [low |-> 200, high |-> 240, fan_retain |-> 30, tick_time |-> 5]
    /\ state = None
    /\ stop_lock = FALSE
    /\ tick_lock = "free"
    /\ rpc = [r \in Runners |-> "idle"]
    /\ loc = [r \in Runners |-> NoLocals]
    /\ peltier = FALSE
    /\ fan = FALSE
    /\ cpc = [c \in Callers |-> "idle"]
    /\ hist = NoHist
    /\ NoIface
    /\ NoStream
    /\ link = [k \in Conns |-> "none"]
    /\ inq = [k \in Conns |-> <<>>]
    /\ spc = [k \in Conns |-> "none"]
    /\ pend = [k \in Conns |-> NoPend]
    /\ reqs = [k \in Conns |-> <<>>]
    /\ resps = [k \in Conns |-> <<>>]
    /\ lsock = "listening"
    /\ apc = "accept"
    /\ acc = "none"
    /\ threads = <<>>
    /\ clpc = "idle"
    /\ cidx = 0
    /\ NoClient
    /\ NoSuper
    /\ NoCopy
    /\ epipe = <<>>
    /\ NoGpio
    /\ NoWire

\* One connection, served over its whole life.
NextServe ==
    \/ ClientConnect("k1")
    \/ \E req \in Requests : ClientSend("k1", req)
    \/ ClientClose("k1")
    \/ Accept("k1")
    \/ StartThread
    \/ AppendThread
    \/ GetRequest("k1")
    \/ GetRequestClosed("k1")
    \/ Handle("k1")
    \/ SendResponse("k1")
    \/ SendError("k1")

SpecServe == InitServe /\ [][NextServe]_vars

\* The requests sent while the server is being closed.
CloseRequests ==
    { [name |-> "peltier", operation |-> "is_on"],
      [malformed |-> TRUE] }

\* Two connections, the accept loop and close().
NextClose ==
    \/ \E k \in Conns : ClientConnect(k)
    \/ \E k \in Conns : \E req \in CloseRequests : ClientSend(k, req)
    \/ \E k \in Conns : ClientClose(k)
    \/ \E k \in Conns : Accept(k)
    \/ AcceptFails
    \/ StartThread
    \/ AppendThread
    \/ \E k \in Conns : GetRequest(k)
    \/ \E k \in Conns : GetRequestClosed(k)
    \/ \E k \in Conns : Handle(k)
    \/ \E k \in Conns : SendResponse(k)
    \/ \E k \in Conns : SendError(k)
    \/ CloseListener
    \/ CloseConn
    \/ CloseJoin

SpecClose == InitServe /\ [][NextClose]_vars

(***************************************************************************)
(* SockConn.request of sock_api.py: callers share one SockConn, whose       *)
(* connections the server answers in order and the network may break       *)
(***************************************************************************)
\* with self.req_lock: the lock can be taken when nobody holds it.
LockFree_any(l) == TRUE

LockFree(l) == l = "free"

\* self.conn = None at the start of the reconnection, for the cached conn cn.
Discard_keep(cn) == cn

Discard(cn) == NoConn

OnRetryClosed_resend(c) == [qpc EXCEPT ![c] = "rq_send_head"]

\* A ClosedException out of the retry is not caught: the call of c ends.
OnRetryClosed_again(c) == [qpc EXCEPT ![c] = "rq_discard"]

OnRetryClosed(c) == [qpc EXCEPT ![c] = "idle"]

Returned(b) == [kind |-> "response", re |-> b]
Closed == [kind |-> "ClosedException", re |-> 0]

\* The two parts send_packet writes for the request body b.
Part(b, p) == [call |-> b, part |-> p]

\* request() is called and the caller gets req_lock.
RqLock(c) ==
    /\ qpc[c] = "idle"
    /\ ncalls < MaxCalls
    /\ LockFree(req_lock)
    /\ req_lock' = c
    /\ ncalls' = ncalls + 1
    /\ qloc' = [qloc EXCEPT ![c] = [NoCall EXCEPT !.body = ncalls + 1]]
    /\ qpc' = [qpc EXCEPT ![c] = "rq_check"]
    /\ UNCHANGED <<conn, chan, nlinks>>
    /\ UNCHANGED notCli

\* if self.conn is None: raise ClosedException(); else the cached connection is
\* tried.
RqCheck(c) ==
    /\ qpc[c] = "rq_check"
    /\ IF conn = NoConn
         THEN /\ qpc' = [qpc EXCEPT ![c] = "rq_discard"]
              /\ qloc' = qloc
         ELSE /\ qpc' = [qpc EXCEPT ![c] = "rq_send_head"]
              /\ qloc' = [qloc EXCEPT ![c].try = 1]
    /\ UNCHANGED <<conn, req_lock, chan, nlinks, ncalls>>
    /\ UNCHANGED notCli

\* What a sendall of part p of c's request leaves on the connection: the part,
\* or nothing when the connection is gone and the bytes go nowhere.
Sendall(c, p) ==
    IF chan[conn].up
    THEN [chan EXCEPT ![conn].inb = Append(@, Part(qloc[c].body, p))]
    ELSE chan

\* send_json: the header of the request frame is written.
RqSendHead(c) ==
    /\ qpc[c] = "rq_send_head"
    /\ chan' = Sendall(c, "head")
    /\ qloc' = [qloc EXCEPT ![c].sends = @ + 1]
    /\ qpc' = [qpc EXCEPT ![c] = "rq_send_body"]
    /\ UNCHANGED <<conn, req_lock, nlinks, ncalls>>
    /\ UNCHANGED notCli

\* send_json: the payload of the request frame is written.
RqSendBody(c) ==
    /\ qpc[c] = "rq_send_body"
    /\ chan' = Sendall(c, "body")
    /\ qpc' = [qpc EXCEPT ![c] = "rq_recv"]
    /\ UNCHANGED <<conn, req_lock, qloc, nlinks, ncalls>>
    /\ UNCHANGED notCli

\* A ClosedException out of self.conn.request(body): on the cached connection it
\* is caught and the reconnection begins, on the fresh one it ends the call.
RqClosed(c) ==
    IF qloc[c].try = 1
    THEN /\ qpc' = [qpc EXCEPT ![c] = "rq_discard"]
         /\ UNCHANGED <<qloc, req_lock>>
    ELSE /\ qpc' = OnRetryClosed(c)
         /\ qloc' = [qloc EXCEPT ![c].ret = Closed]
         /\ req_lock' = IF qpc'[c] = "idle" THEN "free" ELSE req_lock

\* send_json raises ClosedException: the connection is gone.
RqSendFails(c) ==
    /\ qpc[c] \in {"rq_send_head", "rq_send_body"}
    /\ ~chan[conn].up
    /\ RqClosed(c)
    /\ UNCHANGED <<conn, chan, nlinks, ncalls>>
    /\ UNCHANGED notCli

\* get_json returns the next response on the connection, request() returns it
\* and req_lock is released.
RqRecv(c) ==
    /\ qpc[c] = "rq_recv"
    /\ chan[conn].out # <<>>
    /\ qloc' = [qloc EXCEPT ![c].ret = Returned(Head(chan[conn].out))]
    /\ chan' = [chan EXCEPT ![conn].out = Tail(@)]
    /\ qpc' = [qpc EXCEPT ![c] = "idle"]
    /\ req_lock' = "free"
    /\ UNCHANGED <<conn, nlinks, ncalls>>
    /\ UNCHANGED notCli

\* get_json raises ClosedException: the connection is gone and nothing is left
\* to read on it.
RqRecvFails(c) ==
    /\ qpc[c] = "rq_recv"
    /\ ~chan[conn].up
    /\ chan[conn].out = <<>>
    /\ RqClosed(c)
    /\ UNCHANGED <<conn, chan, nlinks, ncalls>>
    /\ UNCHANGED notCli

\* except ClosedException: self.conn = None.
RqDiscard(c) ==
    /\ qpc[c] = "rq_discard"
    /\ conn' = Discard(conn)
    /\ qpc' = [qpc EXCEPT ![c] = "rq_connect"]
    /\ UNCHANGED <<req_lock, qloc, chan, nlinks, ncalls>>
    /\ UNCHANGED notCli

\* self.conn = self.Conn(addr, port) connects, and the retry begins.
RqConnect(c) ==
    /\ qpc[c] = "rq_connect"
    /\ nlinks < MaxLinks
    /\ nlinks' = nlinks + 1
    /\ conn' = nlinks + 1
    /\ chan' = [chan EXCEPT ![nlinks + 1].up = TRUE]
    /\ qloc' = [qloc EXCEPT ![c].connects = @ + 1, ![c].try = 2]
    /\ qpc' = [qpc EXCEPT ![c] = "rq_send_head"]
    /\ UNCHANGED <<req_lock, ncalls>>
    /\ UNCHANGED notCli

\* self.Conn(addr, port) raises: request() raises ClosedException and req_lock
\* is released.
RqConnectFails(c) ==
    /\ qpc[c] = "rq_connect"
    /\ qloc' = [qloc EXCEPT ![c].connects = @ + 1, ![c].ret = Closed]
    /\ qpc' = [qpc EXCEPT ![c] = "idle"]
    /\ req_lock' = "free"
    /\ UNCHANGED <<conn, chan, nlinks, ncalls>>
    /\ UNCHANGED notCli

\* The server's session of connection n reads one request frame, header and
\* payload, and writes the response to it.
ServerAnswer(n) ==
    /\ chan[n].up
    /\ Len(chan[n].inb) >= 2
    /\ chan' = [chan EXCEPT ![n].inb = Tail(Tail(@)),
                            ![n].out = Append(@, chan[n].inb[2].call),
                            ![n].served = Append(@, chan[n].inb[2].call)]
    /\ UNCHANGED <<conn, req_lock, qpc, qloc, nlinks, ncalls>>
    /\ UNCHANGED notCli

\* Connection n ends: the server closes it, and what it had written can still
\* be read, or it is reset, and what was not read is lost.
LinkDown(n) ==
    /\ n <= nlinks
    /\ chan[n].up
    /\ \E reset \in BOOLEAN :
        chan' = [chan EXCEPT ![n].up = FALSE,
                             ![n].out = IF reset THEN <<>> ELSE @]
    /\ UNCHANGED <<conn, req_lock, qpc, qloc, nlinks, ncalls>>
    /\ UNCHANGED notCli

NextClient ==
    \/ \E c \in Clients :
        \/ RqLock(c)
        \/ RqCheck(c)
        \/ RqSendHead(c)
        \/ RqSendBody(c)
        \/ RqSendFails(c)
        \/ RqRecv(c)
        \/ RqRecvFails(c)
        \/ RqDiscard(c)
        \/ RqConnect(c)
        \/ RqConnectFails(c)
    \/ \E n \in 1..MaxLinks :
        \/ ServerAnswer(n)
        \/ LinkDown(n)

SpecClient == InitServe /\ [][NextClient]_vars

(***************************************************************************)
(* gpio_service's handle_req serving read requests of a sensor, one        *)
(* handler thread per session, with the clock running                      *)
(***************************************************************************)
Expired_unset(item, now) == ~item.fresh

\* handle_req: time_ref() - cache_time > CACHE_EXPIRE, cache_time being -inf
\* at the start
Expired(item, now) == ~item.fresh \/ now - item.t > CACHE_EXPIRE

\* The requests that reach handle_req and are not a sensor's read.
OtherRequests ==
    {req \in Requests :
        /\ "malformed" \notin DOMAIN req
        /\ req # [name |-> "tank_temp", operation |-> "read"]}

\* A read request of sensor n arrives on session k.
GRead(k, n) ==
    /\ gpc[k] = "idle"
    /\ nreads < MaxReads
    /\ nreads' = nreads + 1
    /\ gloc' = [gloc EXCEPT ![k] = [NoReq EXCEPT !.name = n, !.operation = "read"]]
    /\ gpc' = [gpc EXCEPT ![k] = "lock"]
    /\ UNCHANGED <<cache, time_ref, req_lock_g>>
    /\ UNCHANGED notGpio

\* A request that is not a sensor's read arrives on session k: a KeyError on
\* "name" or "operation" and an unknown name raise before req_lock is asked for.
GOther(k, req) ==
    /\ gpc[k] = "idle"
    /\ nreads < MaxReads
    /\ nreads' = nreads + 1
    /\ IF /\ {"name", "operation"} \subseteq DOMAIN req
          /\ req.name \in Sensors \cup Devices
       THEN /\ gloc' = [gloc EXCEPT ![k] = [NoReq EXCEPT !.name = req.name,
                                                          !.operation = req.operation]]
            /\ gpc' = [gpc EXCEPT ![k] = "lock"]
       ELSE /\ gloc' = [gloc EXCEPT ![k] = [NoReq EXCEPT !.ret = "raise"]]
            /\ gpc' = gpc
    /\ UNCHANGED <<cache, time_ref, req_lock_g>>
    /\ UNCHANGED notGpio

GLockFree_any(l) == TRUE

\* with req_lock: the lock can be taken when nobody holds it.
GLockFree(l) == l = "free"

\* handle_req: with req_lock
GLock(k) ==
    /\ gpc[k] = "lock"
    /\ GLockFree(req_lock_g)
    /\ req_lock_g' = k
    /\ gpc' = [gpc EXCEPT ![k] = IF gloc[k].name \in Sensors /\ gloc[k].operation = "read"
                                    THEN "check" ELSE "operate"]
    /\ UNCHANGED <<cache, time_ref, gloc, nreads>>
    /\ UNCHANGED notGpio

\* handle_req: a device's is_on, turn_on or turn_off, which may raise, or the
\* SyntaxError for an operation the peripheral does not have; either way the
\* with statement releases req_lock.
GOperate(k) ==
    /\ gpc[k] = "operate"
    /\ LET req == [name |-> gloc[k].name, operation |-> gloc[k].operation]
           allowed == /\ req.name \in Devices
                      /\ req.operation \in {"is_on", "turn_on", "turn_off"}
       IN \E done \in BOOLEAN :
            /\ done => allowed
            /\ gloc' = [gloc EXCEPT ![k].ret = IF done THEN "value" ELSE "raise"]
            /\ peltier' = IF done THEN RelayAfter(req, "peltier", peltier) ELSE peltier
            /\ fan' = IF done THEN RelayAfter(req, "fan", fan) ELSE fan
    /\ req_lock_g' = "free"
    /\ gpc' = [gpc EXCEPT ![k] = "idle"]
    /\ UNCHANGED <<cache, time_ref, nreads>>
    /\ UNCHANGED notGpioRelay

\* handle_req: cache_time, cached = cache[name]; the test of the age; the
\* cached value is the reading if the item has not expired.
GCheck(k) ==
    /\ gpc[k] = "check"
    /\ LET item == cache[gloc[k].name] IN
        /\ gloc' = [gloc EXCEPT ![k].item = item, ![k].at = time_ref,
                                 ![k].reading = IF Expired(item, time_ref) THEN @ ELSE item.v]
        /\ gpc' = [gpc EXCEPT ![k] = IF Expired(item, time_ref) THEN "sample" ELSE "return"]
    /\ UNCHANGED <<cache, time_ref, req_lock_g, nreads>>
    /\ UNCHANGED notGpio

\* handle_req: reading = peripheral.read()
GSample(k) ==
    /\ gpc[k] = "sample"
    /\ \E v \in Readings :
        gloc' = [gloc EXCEPT ![k].reading = v, ![k].samples = @ + 1]
    /\ gpc' = [gpc EXCEPT ![k] = "store"]
    /\ UNCHANGED <<cache, time_ref, req_lock_g, nreads>>
    /\ UNCHANGED notGpio

\* peripheral.read() raises: the with statement releases req_lock and the
\* exception leaves handle_req.
GSampleFails(k) ==
    /\ gpc[k] = "sample"
    /\ gloc' = [gloc EXCEPT ![k].samples = @ + 1, ![k].ret = "raise"]
    /\ req_lock_g' = "free"
    /\ gpc' = [gpc EXCEPT ![k] = "idle"]
    /\ UNCHANGED <<cache, time_ref, nreads>>
    /\ UNCHANGED notGpio

\* handle_req: cache[name] = (time_ref(), reading)
GStore(k) ==
    /\ gpc[k] = "store"
    /\ cache' = [cache EXCEPT ![gloc[k].name] =
                    [fresh |-> TRUE, t |-> time_ref, v |-> gloc[k].reading]]
    /\ gpc' = [gpc EXCEPT ![k] = "return"]
    /\ UNCHANGED <<time_ref, req_lock_g, gloc, nreads>>
    /\ UNCHANGED notGpio

\* handle_req: return reading, which releases req_lock
GReturn(k) ==
    /\ gpc[k] = "return"
    /\ gloc' = [gloc EXCEPT ![k].ret = "value"]
    /\ req_lock_g' = "free"
    /\ gpc' = [gpc EXCEPT ![k] = "idle"]
    /\ UNCHANGED <<cache, time_ref, nreads>>
    /\ UNCHANGED notGpio

\* Time passes.
GTime ==
    /\ time_ref < MaxTime
    /\ time_ref' = time_ref + 1
    /\ UNCHANGED <<cache, req_lock_g, gpc, gloc, nreads>>
    /\ UNCHANGED notGpio

NextCache ==
    \/ \E k \in Conns, n \in Sensors : GRead(k, n)
    \/ \E k \in Conns, req \in OtherRequests : GOther(k, req)
    \/ \E k \in Conns : GOperate(k)
    \/ \E k \in Conns : GLock(k)
    \/ \E k \in Conns : GCheck(k)
    \/ \E k \in Conns : GSample(k)
    \/ \E k \in Conns : GSampleFails(k)
    \/ \E k \in Conns : GStore(k)
    \/ \E k \in Conns : GReturn(k)
    \/ GTime

SpecCache == InitServe /\ [][NextCache]_vars

(***************************************************************************)
(* Instance of high_run.py behind its /start and /stop routes: the web     *)
(* server handles requests in threads, a start() spawns a child and three  *)
(* workers                                                                 *)
(***************************************************************************)
\* The request of handler h ends with outcome r.
Respond(h, r) ==
    /\ hpc' = [hpc EXCEPT ![h] = "idle"]
    /\ hloc' = [hloc EXCEPT ![h].res = r]

Continue(h, pc) ==
    /\ hpc' = [hpc EXCEPT ![h] = pc]
    /\ hloc' = hloc

\* The next child, and the next set of workers, not yet created.
NewProc == CHOOSE g \in Procs : child[g].st = "none" /\ \A k \in 1..(g - 1) : child[k].st # "none"
NewSet == CHOOSE w \in Sets : wset[w].watch = "none" /\ \A k \in 1..(w - 1) : wset[k].watch # "none"

\* A POST /start, POST /stop or PUT /params arrives and a thread takes it.
Post(h, op) ==
    /\ hpc[h] = "idle"
    /\ nops < MaxOps
    /\ nops' = nops + 1
    /\ hloc' = [hloc EXCEPT ![h] = [NoOp EXCEPT !.op = op]]
    /\ hpc' = [hpc EXCEPT ![h] = "rt_check"]
    /\ UNCHANGED <<running, run_info, instance_info, stderr_reject, proc, stdout_thread,
                   stderr_thread, watch_thread, child, wset>>
    /\ UNCHANGED notSup

\* start_route, set_params_route: if instance.running: 409; stop_route: if not
\* instance.running: 409.
RouteCheck(h) ==
    /\ hpc[h] = "rt_check"
    /\ IF hloc[h].op = "start"
         THEN IF running THEN Respond(h, "409") ELSE Continue(h, "st_read")
         ELSE IF hloc[h].op = "put"
         THEN IF running THEN Respond(h, "409") ELSE Continue(h, "pt_write")
         ELSE IF ~running THEN Respond(h, "409") ELSE Continue(h, "ex_check")
    /\ UNCHANGED <<running, run_info, instance_info, stderr_reject, proc, stdout_thread,
                   stderr_thread, watch_thread, child, wset, nops>>
    /\ UNCHANGED notSup

\* start_route: params = read_params_file()
StRead(h) ==
    /\ hpc[h] = "st_read"
    /\ hloc' = [hloc EXCEPT ![h].params = params_file]
    /\ hpc' = [hpc EXCEPT ![h] = "st_check"]
    /\ UNCHANGED <<running, run_info, instance_info, stderr_reject, proc, stdout_thread,
                   stderr_thread, watch_thread, child, wset, nops>>
    /\ UNCHANGED notSup

\* set_params_route: the body is refused with 400, or
\* write_params_file(new_params) and 204.
PtWrite(h) ==
    /\ hpc[h] = "pt_write"
    /\ \/ /\ params_file' = params_file
          /\ Respond(h, "400")
       \/ /\ \E new_params \in ParamFiles : params_file' = new_params
          /\ Respond(h, "204")
    /\ UNCHANGED <<running, run_info, instance_info, stderr_reject, proc, stdout_thread,
                   stderr_thread, watch_thread, child, wset, nops>>
    /\ UNCHANGED notFile

\* start: if self.running: raise RuntimeError.
StCheck(h) ==
    /\ hpc[h] = "st_check"
    /\ IF running THEN Respond(h, "RuntimeError") ELSE Continue(h, "st_set")
    /\ UNCHANGED <<running, run_info, instance_info, stderr_reject, proc, stdout_thread,
                   stderr_thread, watch_thread, child, wset, nops>>
    /\ UNCHANGED notSup

\* start: self.running = True.
StSet(h) ==
    /\ hpc[h] = "st_set"
    /\ running' = TRUE
    /\ Continue(h, "st_popen")
    /\ UNCHANGED <<run_info, instance_info, stderr_reject, proc, stdout_thread,
                   stderr_thread, watch_thread, child, wset, nops>>
    /\ UNCHANGED notSup

\* start: self.proc = subprocess.Popen(command + args), the args being the
\* params that start_route read.
StPopen(h) ==
    /\ hpc[h] = "st_popen"
    /\ proc' = NewProc
    /\ child' = [child EXCEPT ![NewProc].st = "running",
                              ![NewProc].params = hloc[h].params]
    /\ Continue(h, "st_threads")
    /\ UNCHANGED <<running, run_info, instance_info, stderr_reject, stdout_thread,
                   stderr_thread, watch_thread, wset, nops>>
    /\ UNCHANGED notSup

\* start: the three Thread objects are created, the stream threads on the pipes
\* of self.proc, and stderr_reject is reset.
StThreads(h) ==
    /\ hpc[h] = "st_threads"
    /\ wset' = [wset EXCEPT ![NewSet] = [pipe |-> proc, wproc |-> 0, out |-> "new",
                                         err |-> "new", watch |-> "new"]]
    /\ stdout_thread' = NewSet
    /\ stderr_thread' = NewSet
    /\ watch_thread' = NewSet
    /\ stderr_reject' = ""
    /\ Continue(h, "st_watch")
    /\ UNCHANGED <<running, run_info, instance_info, proc, child, nops>>
    /\ UNCHANGED notSup

\* start: self.watch_thread.start(); the watchdog calls self.proc.wait(). A
\* thread that was started before raises RuntimeError.
StWatch(h) ==
    /\ hpc[h] = "st_watch"
    /\ IF wset[watch_thread].watch = "new"
         THEN /\ wset' = [wset EXCEPT ![watch_thread].watch = "wait",
                                      ![watch_thread].wproc = proc]
              /\ Continue(h, "st_streams")
         ELSE /\ wset' = wset
              /\ Respond(h, "RuntimeError")
    /\ UNCHANGED <<running, run_info, instance_info, stderr_reject, proc, stdout_thread,
                   stderr_thread, watch_thread, child, nops>>
    /\ UNCHANGED notSup

\* start: self.stdout_thread.start(); self.stderr_thread.start().
StStreams(h) ==
    /\ hpc[h] = "st_streams"
    /\ IF wset[stdout_thread].out # "new"
         THEN /\ wset' = wset
              /\ Respond(h, "RuntimeError")
         ELSE IF wset[stderr_thread].err # "new"
         THEN /\ wset' = [wset EXCEPT ![stdout_thread].out = "running"]
              /\ Respond(h, "RuntimeError")
         ELSE /\ wset' = [wset EXCEPT ![stdout_thread].out = "running",
                                      ![stderr_thread].err = "running"]
              /\ Continue(h, "st_info")
    /\ UNCHANGED <<running, run_info, instance_info, stderr_reject, proc, stdout_thread,
                   stderr_thread, watch_thread, child, nops>>
    /\ UNCHANGED notSup

\* start: self.run_info = RunInfo(reason = "started"), and the route answers 204.
StInfo(h) ==
    /\ hpc[h] = "st_info"
    /\ run_info' = RunInfo("started", "None")
    /\ Respond(h, "204")
    /\ UNCHANGED <<running, instance_info, stderr_reject, proc, stdout_thread,
                   stderr_thread, watch_thread, child, wset, nops>>
    /\ UNCHANGED notSup

\* exit: if not self.running: raise RuntimeError.
ExCheck(h) ==
    /\ hpc[h] = "ex_check"
    /\ IF ~running THEN Respond(h, "RuntimeError") ELSE Continue(h, "ex_set")
    /\ UNCHANGED <<running, run_info, instance_info, stderr_reject, proc, stdout_thread,
                   stderr_thread, watch_thread, child, wset, nops>>
    /\ UNCHANGED notSup

\* exit: self.running = False.
ExSet(h) ==
    /\ hpc[h] = "ex_set"
    /\ running' = FALSE
    /\ Continue(h, "ex_signal")
    /\ UNCHANGED <<run_info, instance_info, stderr_reject, proc, stdout_thread,
                   stderr_thread, watch_thread, child, wset, nops>>
    /\ UNCHANGED notSup

\* exit: self.proc.send_signal(SIGINT), which does nothing to a child that has
\* exited, and self.proc.wait() is called. Without a self.proc: AttributeError.
ExSignal(h) ==
    /\ hpc[h] = "ex_signal"
    /\ IF proc = 0
         THEN /\ child' = child
              /\ Respond(h, "AttributeError")
         ELSE /\ child' = [child EXCEPT ![proc].sig = @ \/ child[proc].st = "running"]
              /\ hpc' = [hpc EXCEPT ![h] = "ex_wait"]
              /\ hloc' = [hloc EXCEPT ![h].p = proc]
    /\ UNCHANGED <<running, run_info, instance_info, stderr_reject, proc, stdout_thread,
                   stderr_thread, watch_thread, wset, nops>>
    /\ UNCHANGED notSup

\* exit: self.proc.wait() returns.
ExWait(h) ==
    /\ hpc[h] = "ex_wait"
    /\ child[hloc[h].p].st = "exited"
    /\ Continue(h, "ex_join")
    /\ UNCHANGED <<running, run_info, instance_info, stderr_reject, proc, stdout_thread,
                   stderr_thread, watch_thread, child, wset, nops>>
    /\ UNCHANGED notSup

\* The thread t of worker set w has ended; joining a thread that was not
\* started raises RuntimeError.
Ended(w, t) == w # 0 /\ wset[w][t] \in {"done", "died"}
Unstarted(w, t) == w # 0 /\ wset[w][t] = "new"

\* exit: the three joins return, or one of them raises.
ExJoin(h) ==
    /\ hpc[h] = "ex_join"
    /\ \/ /\ stdout_thread = 0 \/ stderr_thread = 0 \/ watch_thread = 0
          /\ Respond(h, "AttributeError")
       \/ /\ \/ Unstarted(stdout_thread, "out")
             \/ Ended(stdout_thread, "out") /\ Unstarted(stderr_thread, "err")
             \/ /\ Ended(stdout_thread, "out")
                /\ Ended(stderr_thread, "err")
                /\ Unstarted(watch_thread, "watch")
          /\ Respond(h, "RuntimeError")
       \/ /\ Ended(stdout_thread, "out")
          /\ Ended(stderr_thread, "err")
          /\ Ended(watch_thread, "watch")
          /\ Continue(h, "ex_info")
    /\ UNCHANGED <<running, run_info, instance_info, stderr_reject, proc, stdout_thread,
                   stderr_thread, watch_thread, child, wset, nops>>
    /\ UNCHANGED notSup

\* exit: self.instance_info = [None, None]; self.run_info = RunInfo(reason =
\* "stopped"), and the route answers 204.
ExInfo(h) ==
    /\ hpc[h] = "ex_info"
    /\ instance_info' = Null
    /\ run_info' = RunInfo("stopped", "None")
    /\ Respond(h, "204")
    /\ UNCHANGED <<running, stderr_reject, proc, stdout_thread, stderr_thread,
                   watch_thread, child, wset, nops>>
    /\ UNCHANGED notSup

\* The exit codes of a child: after SIGINT 0 or not, by itself never 0.
ExitCodes(g) == IF child[g].sig THEN {0, 2} ELSE {2}

\* The child exits, with or without a traceback written to stderr before, with
\* or without a packet that stderr_stream has not read yet, and, if it did not
\* end by itself, with or without a last packet cut short.
ChildExit(g) ==
    /\ child[g].st = "running"
    /\ \E code \in ExitCodes(g) : \E tail \in Tails(code) :
        child' = [child EXCEPT ![g].st = "exited", ![g].code = code, ![g].tail = tail]
    /\ UNCHANGED <<running, run_info, instance_info, stderr_reject, proc, stdout_thread,
                   stderr_thread, watch_thread, wset, hpc, hloc, nops>>
    /\ UNCHANGED notSup

\* The child is sent SIGINT by somebody other than exit(): core_run's main
\* thread catches KeyboardInterrupt, stops the manager and ends with code 0.
ChildInterrupted(g) ==
    /\ child[g].st = "running"
    /\ ~child[g].sig
    /\ \E tail \in Tails(0) :
        child' = [child EXCEPT ![g].st = "exited", ![g].code = 0, ![g].tail = tail]
    /\ UNCHANGED <<running, run_info, instance_info, stderr_reject, proc, stdout_thread,
                   stderr_thread, watch_thread, wset, hpc, hloc, nops>>
    /\ UNCHANGED notSup

\* stderr_stream reads the packets the child has written, params and state, and
\* handle_packet puts them in instance_info.
ErrPacket(w) ==
    /\ wset[w].err = "running"
    /\ child[wset[w].pipe].st = "running"
    /\ instance_info = Null
    /\ instance_info' = [params |-> TRUE, state |-> TRUE]
    /\ UNCHANGED <<running, run_info, stderr_reject, proc, stdout_thread, stderr_thread,
                   watch_thread, child, wset, hpc, hloc, nops>>
    /\ UNCHANGED notSup

\* stderr_stream reads a packet that the child wrote before it exited.
ErrDrain(w) ==
    /\ wset[w].err = "running"
    /\ child[wset[w].pipe].st = "exited"
    /\ child[wset[w].pipe].tail = "packet"
    /\ instance_info' = [params |-> TRUE, state |-> TRUE]
    /\ child' = [child EXCEPT ![wset[w].pipe].tail = "none"]
    /\ UNCHANGED <<running, run_info, stderr_reject, proc, stdout_thread, stderr_thread,
                   watch_thread, wset, hpc, hloc, nops>>
    /\ UNCHANGED notSup

\* stderr_stream reads what the child wrote before it exited as a packet whose
\* kind is state or params and whose rest json.loads refuses: handle_packet
\* raises and the thread ends with the exception.
ErrRaise(w) ==
    /\ wset[w].err = "running"
    /\ child[wset[w].pipe].st = "exited"
    /\ child[wset[w].pipe].tail = "packet"
    /\ wset' = [wset EXCEPT ![w].err = "done"]
    /\ child' = [child EXCEPT ![wset[w].pipe].tail = "none"]
    /\ UNCHANGED <<running, run_info, instance_info, stderr_reject, proc, stdout_thread,
                   stderr_thread, watch_thread, hpc, hloc, nops>>
    /\ UNCHANGED notSup

\* stderr_stream reads the header of a packet that was cut short: in
\* while len(content) < length: content += pipe.readline()
\* readline returns "" at the end of the file, and the loop goes on for ever.
ErrCut(w) ==
    /\ wset[w].err = "running"
    /\ child[wset[w].pipe].st = "exited"
    /\ child[wset[w].pipe].tail = "cut"
    /\ wset' = [wset EXCEPT ![w].err = "spin"]
    /\ UNCHANGED <<running, run_info, instance_info, stderr_reject, proc, stdout_thread,
                   stderr_thread, watch_thread, child, hpc, hloc, nops>>
    /\ UNCHANGED notSup

\* stderr_stream reads text that is not a packet: self.stderr_reject += data.
ErrReject(w) ==
    /\ wset[w].err = "running"
    /\ child[wset[w].pipe].tail = "text"
    /\ stderr_reject' = "text"
    /\ child' = [child EXCEPT ![wset[w].pipe].tail = "none"]
    /\ UNCHANGED <<running, run_info, instance_info, proc, stdout_thread, stderr_thread,
                   watch_thread, wset, hpc, hloc, nops>>
    /\ UNCHANGED notSup

\* stderr_stream ends: its pipe is closed and read to the end.
ErrEnd(w) ==
    /\ wset[w].err = "running"
    /\ child[wset[w].pipe].st = "exited"
    /\ child[wset[w].pipe].tail = "none"
    /\ wset' = [wset EXCEPT ![w].err = "done"]
    /\ UNCHANGED <<running, run_info, instance_info, stderr_reject, proc, stdout_thread,
                   stderr_thread, watch_thread, child, hpc, hloc, nops>>
    /\ UNCHANGED notSup

\* stdout_stream ends: its pipe is closed.
OutEnd(w) ==
    /\ wset[w].out = "running"
    /\ child[wset[w].pipe].st = "exited"
    /\ wset' = [wset EXCEPT ![w].out = "done"]
    /\ UNCHANGED <<running, run_info, instance_info, stderr_reject, proc, stdout_thread,
                   stderr_thread, watch_thread, child, hpc, hloc, nops>>
    /\ UNCHANGED notSup

\* What the watchdog puts in RunInfo.info.
CrashInfo(r) == r

\* watchdog: self.proc.wait() returns; with code 0 the watchdog ends.
WdWait(w) ==
    /\ wset[w].watch = "wait"
    /\ child[wset[w].wproc].st = "exited"
    /\ wset' = [wset EXCEPT ![w].watch =
                    IF child[wset[w].wproc].code # 0 THEN "cleanup" ELSE "done"]
    /\ UNCHANGED <<running, run_info, instance_info, stderr_reject, proc, stdout_thread,
                   stderr_thread, watch_thread, child, hpc, hloc, nops>>
    /\ UNCHANGED notSup

\* watchdog: self.running = False; self.instance_info = [None, None].
WdCleanup(w) ==
    /\ wset[w].watch = "cleanup"
    /\ running' = FALSE
    /\ instance_info' = Null
    /\ wset' = [wset EXCEPT ![w].watch = "join_out"]
    /\ UNCHANGED <<run_info, stderr_reject, proc, stdout_thread, stderr_thread,
                   watch_thread, child, hpc, hloc, nops>>
    /\ UNCHANGED notSup

\* watchdog: self.stdout_thread.join() returns, or raises and the watchdog dies.
WdJoinOut(w) ==
    /\ wset[w].watch = "join_out"
    /\ \/ /\ Unstarted(stdout_thread, "out")
          /\ wset' = [wset EXCEPT ![w].watch = "died"]
       \/ /\ Ended(stdout_thread, "out")
          /\ wset' = [wset EXCEPT ![w].watch = "join_err"]
    /\ UNCHANGED <<running, run_info, instance_info, stderr_reject, proc, stdout_thread,
                   stderr_thread, watch_thread, child, hpc, hloc, nops>>
    /\ UNCHANGED notSup

\* watchdog: self.stderr_thread.join() returns, or raises and the watchdog dies.
WdJoinErr(w) ==
    /\ wset[w].watch = "join_err"
    /\ \/ /\ Unstarted(stderr_thread, "err")
          /\ wset' = [wset EXCEPT ![w].watch = "died"]
       \/ /\ Ended(stderr_thread, "err")
          /\ wset' = [wset EXCEPT ![w].watch = "run_info"]
    /\ UNCHANGED <<running, run_info, instance_info, stderr_reject, proc, stdout_thread,
                   stderr_thread, watch_thread, child, hpc, hloc, nops>>
    /\ UNCHANGED notSup

\* watchdog: self.run_info = RunInfo(reason = "crashed", info =
\* self.stderr_reject).
WdInfo(w) ==
    /\ wset[w].watch = "run_info"
    /\ run_info' = RunInfo("crashed", CrashInfo(stderr_reject))
    /\ wset' = [wset EXCEPT ![w].watch = "done"]
    /\ UNCHANGED <<running, instance_info, stderr_reject, proc, stdout_thread,
                   stderr_thread, watch_thread, child, hpc, hloc, nops>>
    /\ UNCHANGED notSup

\* A step of start() or of its route in handler h.
StartStep(h) ==
    \/ RouteCheck(h)
    \/ StRead(h)
    \/ StCheck(h)
    \/ StSet(h)
    \/ StPopen(h)
    \/ StThreads(h)
    \/ StWatch(h)
    \/ StStreams(h)
    \/ StInfo(h)

\* A step of exit() in handler h.
ExitStep(h) ==
    \/ ExCheck(h)
    \/ ExSet(h)
    \/ ExSignal(h)
    \/ ExWait(h)
    \/ ExJoin(h)
    \/ ExInfo(h)

\* A step of the stream threads of worker set w.
StreamStep(w) ==
    \/ ErrPacket(w)
    \/ ErrDrain(w)
    \/ ErrRaise(w)
    \/ ErrCut(w)
    \/ ErrReject(w)
    \/ ErrEnd(w)
    \/ OutEnd(w)

\* A step of the watchdog of worker set w.
WdStep(w) ==
    \/ WdWait(w)
    \/ WdCleanup(w)
    \/ WdJoinOut(w)
    \/ WdJoinErr(w)
    \/ WdInfo(w)

\* Two handlers, both asked to start only.
NextSuper ==
    \/ \E h \in Handlers :
        \/ nops < MaxStarts /\ Post(h, "start")
        \/ StartStep(h)
    \/ \E w \in Sets : StreamStep(w) \/ WdStep(w)
    \/ \E g \in Procs : ChildExit(g)

SpecSuper == InitServe /\ [][NextSuper]_vars

\* One handler asked to start and one asked to stop.
NextStop ==
    \/ Post("h1", "start")
    \/ Post("h2", "stop")
    \/ \E h \in Handlers : RouteCheck(h)
    \/ StRead("h1")
    \/ StCheck("h1")
    \/ StSet("h1")
    \/ StPopen("h1")
    \/ StThreads("h1")
    \/ StWatch("h1")
    \/ StStreams("h1")
    \/ StInfo("h1")
    \/ ExitStep("h2")
    \/ \E w \in Sets : StreamStep(w) \/ WdStep(w)
    \/ \E g \in Procs : ChildExit(g)

SpecStop == InitServe /\ [][NextStop]_vars

\* The supervisor is only ever asked to start, by one request at a time; the
\* threads of the supervisor that can take a step do so in the end.
NextCrash ==
    \/ Post("h1", "start")
    \/ StartStep("h1")
    \/ \E w \in Sets : StreamStep(w) \/ WdStep(w)
    \/ \E g \in Procs : ChildExit(g)

SpecCrash ==
    /\ InitServe
    /\ [][NextCrash]_vars
    /\ WF_vars(StartStep("h1"))
    /\ \A w \in Sets :
        /\ WF_vars(WdStep(w))
        /\ WF_vars(ErrDrain(w))
        /\ WF_vars(ErrRaise(w))
        /\ WF_vars(ErrCut(w))
        /\ WF_vars(ErrReject(w))
        /\ WF_vars(ErrEnd(w))
        /\ WF_vars(OutEnd(w))

\* The same requests, with children that may be interrupted from outside.
NextSigint ==
    \/ NextCrash
    \/ \E g \in Procs : ChildInterrupted(g)

SpecSigint == InitServe /\ [][NextSigint]_vars

\* One handler asked to start and one asked to set the params.
NextPut ==
    \/ Post("h1", "start")
    \/ Post("h2", "put")
    \/ \E h \in Handlers : RouteCheck(h)
    \/ StRead("h1")
    \/ StCheck("h1")
    \/ StSet("h1")
    \/ StPopen("h1")
    \/ StThreads("h1")
    \/ StWatch("h1")
    \/ StStreams("h1")
    \/ StInfo("h1")
    \/ PtWrite("h2")
    \/ \E w \in Sets : StreamStep(w) \/ WdStep(w)
    \/ \E g \in Procs : ChildExit(g)

SpecPut == InitServe /\ [][NextPut]_vars

SpecPipe == InitServe /\ [][NextPipe]_vars

(***************************************************************************)
(* Properties of the tick, checked under Spec                              *)
(***************************************************************************)
PeltierPcs == {"p_read", "p_ison", "p_off", "p_on"}
FanPcs == {"f_ison", "f_fan", "f_off", "f_on"}

\* The step in which thread r's peltier_tick receives a reading.
Reading(r) == rpc[r] = "p_read" /\ rpc'[r] = "p_ison"

\* C1: in every step between two states of one run, the phase goes cool -> idle
\* exactly when the step is a reading t < low taken in phase cool, and idle -> cool
\* exactly when it is a reading t >= high taken in phase idle; a reading with
\* low <= t < high (t = low included) leaves the phase as it is.
C1_Hysteresis ==
    [][(state # None /\ state' # None) =>
        /\ (Cur.phase = "cool" /\ state'[1].phase = "idle")
            <=> (\E r \in Runners : /\ Reading(r)
                                    /\ Cur.phase = "cool"
                                    /\ loc'[r].temperature < params.low)
        /\ (Cur.phase = "idle" /\ state'[1].phase = "cool")
            <=> (\E r \in Runners : /\ Reading(r)
                                    /\ Cur.phase = "idle"
                                    /\ loc'[r].temperature >= params.high)
        /\ \A r \in Runners :
            (/\ Reading(r)
             /\ params.low <= loc'[r].temperature
             /\ loc'[r].temperature < params.high) => state'[1].phase = Cur.phase
      ]_vars

\* C1: a reading exactly equal to low was taken in phase cool, which stays cool.
C1_Witness ==
    \E r \in Runners :
        /\ rpc[r] = "p_ison"
        /\ state # None
        /\ loc[r].temperature = params.low
        /\ Cur.phase = "cool"
        /\ hist.ticks >= 1

\* C2: when a fan sub-tick has completed without failure, the fan is on iff
\* last_peltier_on * tick_time < fan_retain, and last_peltier_on is 0 if the
\* sub-tick saw the peltier on and one more than before the sub-tick otherwise.
C2_FanRule ==
    \A r \in Runners :
        (rpc[r] = "tick_end" /\ loc[r].fan_fail = "None") =>
            /\ state # None
            /\ fan <=> (Cur.last_peltier_on * params.tick_time < params.fan_retain)
            /\ Cur.last_peltier_on = IF loc[r].peltier_on THEN 0 ELSE loc[r].last0 + 1

\* C2: a fan sub-tick has completed with the peltier off for two ticks or more and
\* the fan still retained on.
C2_Witness ==
    \E r \in Runners :
        /\ rpc[r] = "tick_end"
        /\ loc[r].fan_fail = "None"
        /\ ~loc[r].peltier_on
        /\ state # None
        /\ Cur.last_peltier_on >= 2
        /\ fan

\* ceil(a / b) for a >= 0, b > 0
Ceil(a, b) == (a + b - 1) \div b

\* C3: if the peltier was turned off in tick k and has stayed off with every
\* sub-tick since succeeding, then after each tick up to
\* k + ceil(fan_retain / tick_time) - 1 the fan is on, and after a tick with
\* last_peltier_on * tick_time >= fan_retain it is off.
C3_FanRetention ==
    \A r \in Runners :
        (rpc[r] = "sleep" /\ state # None /\ hist.off_tick > 0 /\ hist.clean) =>
            /\ hist.ticks <= hist.off_tick + Ceil(params.fan_retain, params.tick_time) - 1
                => fan
            /\ Cur.last_peltier_on * params.tick_time >= params.fan_retain
                => ~fan

\* C4: within a tick the fan sub-tick does not start before the peltier sub-tick
\* has ended in success or in a caught failure, a tick never ends without the fan
\* sub-tick having run to success or caught failure, and no thread dies of a
\* failure raised out of tick().
C4_Isolation ==
    \A r \in Runners :
        /\ rpc[r] \in PeltierPcs =>
            /\ loc[r].peltier_fail = "unset"
            /\ ~loc[r].fan_started
            /\ loc[r].fan_fail = "unset"
        /\ rpc[r] \in FanPcs => loc[r].peltier_fail \in {"None", "exc"}
        /\ rpc[r] = "tick_end" =>
            /\ loc[r].peltier_fail \in {"None", "exc"}
            /\ loc[r].fan_started
            /\ loc[r].fan_fail \in {"None", "exc"}
        /\ rpc[r] # "raised"

\* C4: a tick ends whose peltier sub-tick failed and whose fan sub-tick succeeded.
C4_Witness ==
    \E r \in Runners :
        /\ rpc[r] = "tick_end"
        /\ loc[r].peltier_fail = "exc"
        /\ loc[r].fan_fail = "None"

\* The messages of one tick whose peltier sub-tick failed iff pf and whose fan
\* sub-tick failed iff ff.
TickMessages(pf, ff) ==
    <<"running">> \o (IF pf THEN <<"peltier_fail">> ELSE <<>>)
                  \o (IF ff THEN <<"fan_fail">> ELSE <<>>)
                  \o <<"state", "done">>

\* The messages of a tick up to the end of its peltier sub-tick, and up to the
\* end of its fan sub-tick.
UpToPeltier(l) == <<"running">> \o (IF l.peltier_fail = "exc" THEN <<"peltier_fail">> ELSE <<>>)
UpToFan(l) == UpToPeltier(l) \o (IF l.fan_fail = "exc" THEN <<"fan_fail">> ELSE <<>>)

\* C21: nothing is written before run() has started; before the first tick the
\* stream is the one params message; within a tick it is running, then
\* peltier_fail iff the peltier sub-tick has failed, then fan_fail iff the fan
\* sub-tick has failed; between ticks it ends with the whole of the last tick,
\* state and done included, so that the next running follows a done.
C21_Stream ==
    \A r \in Runners :
        /\ rpc[r] \in {"run_check", "run_init", "raised"} => epipe = <<>>
        /\ (rpc[r] = "tick_start" /\ hist.ticks = 0) => epipe = <<"params">>
        /\ rpc[r] \in PeltierPcs => epipe = <<"running">>
        /\ rpc[r] \in FanPcs => epipe = UpToPeltier(loc[r])
        /\ rpc[r] = "tick_end" => epipe = UpToFan(loc[r])
        /\ (rpc[r] \in {"sleep", "release", "exiting", "done"}
                \/ (rpc[r] = "tick_start" /\ hist.ticks > 0))
            => \E pf, ff \in BOOLEAN : epipe = TickMessages(pf, ff)

\* C21: a tick in which both sub-ticks failed has ended, after an earlier tick.
C21_Witness ==
    \E r \in Runners :
        /\ rpc[r] = "sleep"
        /\ hist.ticks >= 2
        /\ epipe = TickMessages(TRUE, TRUE)

\* C25: once a peltier sub-tick has completed without failure, the peltier is on
\* iff the phase is cool; and in the first tick of a run a reading t >= low
\* leaves the phase cool, so that the peltier is on after that sub-tick
\* whatever it was before the run.
C25_PeltierFollowsPhase ==
    \A r \in Runners :
        /\ (rpc[r] \in FanPcs \cup {"tick_end"} /\ loc[r].peltier_fail = "None")
            => (peltier <=> Cur.phase = "cool")
        /\ (rpc[r] = "p_ison" /\ hist.ticks = 0 /\ loc[r].temperature >= params.low)
            => Cur.phase = "cool"

\* C25: the first peltier sub-tick of a run has turned on a peltier that was off.
C25_Witness ==
    \E r \in Runners :
        /\ rpc[r] = "f_ison"
        /\ loc[r].peltier_fail = "None"
        /\ hist.ticks = 0
        /\ hist.on_tick = 1
        /\ peltier

\* The fan is wanted on, by the rule of fan_tick.
FanWanted == Cur.last_peltier_on * params.tick_time < params.fan_retain

\* C26: turn_on is requested only after an is_on of the same sub-tick that
\* returned false and turn_off only after one that returned true; the step
\* after a turn_on or turn_off ends the sub-tick; and no request follows an
\* is_on that returned the state wanted.
C26_NoRedundantActuation ==
    [][/\ (peltier' # peltier) => \E r \in Runners : rpc[r] \in {"p_on", "p_off"}
       /\ (fan' # fan) => \E r \in Runners : rpc[r] \in {"f_on", "f_off"}
       /\ \A r \in Runners :
        /\ (rpc'[r] = "p_on" /\ rpc[r] # "p_on") => (rpc[r] = "p_ison" /\ ~peltier /\ ~loc'[r].peltier_on)
        /\ (rpc'[r] = "p_off" /\ rpc[r] # "p_off") => (rpc[r] = "p_ison" /\ peltier /\ loc'[r].peltier_on)
        /\ (rpc'[r] = "f_on" /\ rpc[r] # "f_on") => (rpc[r] = "f_fan" /\ ~fan /\ ~loc'[r].fan_on)
        /\ (rpc'[r] = "f_off" /\ rpc[r] # "f_off") => (rpc[r] = "f_fan" /\ fan /\ loc'[r].fan_on)
        /\ rpc[r] \in {"p_on", "p_off"} => rpc'[r] \in {rpc[r], "f_ison"}
        /\ rpc[r] \in {"f_on", "f_off"} => rpc'[r] \in {rpc[r], "tick_end"}
        /\ (rpc[r] = "p_ison" /\ (peltier <=> Cur.phase = "cool"))
            => rpc'[r] \in {rpc[r], "f_ison"}
        /\ (rpc[r] = "f_fan" /\ (fan <=> FanWanted))
            => rpc'[r] \in {rpc[r], "tick_end"}]_vars

\* C26: a fan sub-tick has found the fan on as wanted and ended without a
\* request, in a tick whose peltier sub-tick made none either.
C26_Witness ==
    \E r \in Runners :
        /\ rpc[r] = "tick_end"
        /\ loc[r].peltier_fail = "None"
        /\ loc[r].fan_fail = "None"
        /\ loc[r].fan_on
        /\ fan
        /\ hist.on_tick = 0
        /\ hist.off_tick = 0

\* C24: the first tick of every run() starts from phase cool and
\* last_peltier_on 0, whatever ran before on the instance.
C24_InitialState ==
    \A r \in Runners :
        (rpc[r] = "p_read" /\ hist.ticks = 0) => state = <<initial_state>>

\* C27: at the end of a tick the first component of the report is None iff the
\* peltier sub-tick did not raise and the second is None iff the fan sub-tick
\* did not raise.
C27_ExactReport ==
    \A r \in Runners :
        rpc[r] = "tick_end" =>
            /\ loc[r].peltier_fail \in {"None", "exc"}
            /\ loc[r].fan_fail \in {"None", "exc"}
            /\ loc[r].peltier_fail = "None" <=> ~loc[r].peltier_raised
            /\ loc[r].fan_fail = "None" <=> ~loc[r].fan_raised

\* C37: a temperature read that raises leaves the state as it is and ends the
\* peltier sub-tick with the peltier untouched; an is_on read of the fan
\* sub-tick that raises leaves the state as it is and ends the tick with the
\* fan untouched; last_peltier_on is never negative.
C37_FailedRead ==
    [][/\ \A r \in Runners :
            /\ (rpc[r] = "p_read" /\ loc'[r].peltier_raised)
                => (state' = state /\ peltier' = peltier /\ rpc'[r] \notin PeltierPcs)
            /\ (rpc[r] = "f_ison" /\ loc'[r].fan_raised)
                => (state' = state /\ fan' = fan /\ rpc'[r] \notin FanPcs)
       /\ state' # None => state'[1].last_peltier_on >= 0]_vars

\* C37: a tick is ending whose fan sub-tick raised at its first read, with
\* last_peltier_on at 2 or more, and whose peltier sub-tick raised as well.
C37_Witness ==
    \E r \in Runners :
        /\ rpc[r] = "tick_end"
        /\ loc[r].fan_raised
        /\ loc[r].peltier_raised
        /\ loc[r].last0 = 0
        /\ Cur.last_peltier_on >= 2

(***************************************************************************)
(* Properties of run, stop and Interface                                   *)
(***************************************************************************)
\* Where a thread is while the loop of its run() executes.
LoopPcs == {"tick_start", "tick_end", "sleep", "release"} \cup PeltierPcs \cup FanPcs

\* Where a thread is from the call of run() until run() has set state to None.
RunPcs == {"run_check", "run_init", "exiting"} \cup LoopPcs

\* C5: a run() called while state is not None ends by raising and leaves state as
\* it is, and after every step at most one thread is in the loop of run().
C5_SingleRun ==
    [][/\ \A r \in Runners :
            (rpc[r] = "run_check" /\ rpc'[r] # "run_check" /\ state # None)
                => (rpc'[r] = "raised" /\ state' = state)
       /\ Cardinality({r \in Runners : rpc'[r] \in LoopPcs}) <= 1]_vars

\* C6: a stop() that found the loop running returns only when is_running() is
\* false, and a stop() that found it not running returns in that step and changes
\* nothing.
C6_StopReturns ==
    [][\A c \in Callers :
        /\ (cpc[c] = "stop_acq2" /\ cpc'[c] = "stop_ret") => state' = None
        /\ (cpc[c] = "stop_check" /\ cpc'[c] # "stop_check" /\ state = None)
            => (cpc'[c] = "stop_ret" /\ UNCHANGED <<state, stop_lock, params>>)]_vars

\* C7: from the call of run() until the loop has exited and state is None again,
\* no step changes the params in memory or the params file.
C7_ParamsFrozen ==
    [][(\E r \in Runners : rpc[r] \in RunPcs /\ rpc'[r] \in RunPcs)
        => (params' = params /\ pfile' = pfile)]_vars

\* What set_params lets through, written out: exactly the four keys, four floats,
\* 0 <= tick_time <= 60.
WellFormed(d) ==
    /\ DOMAIN d = ParamKeys
    /\ \A k \in ParamKeys : d[k].float
    /\ 0 <= d.tick_time.n /\ d.tick_time.n <= 60

Quiescent ==
    /\ \A c \in Clients : cpc[c] = "idle"
    /\ \A r \in Runners : rpc[r] \notin {"created", "run_check", "run_init", "release", "exiting"}

\* C34: in a quiescent state the stop lock is not held, and Interface's thread
\* is set iff the instance's state is.
C34_Restartable ==
    Quiescent => (~stop_lock /\ (ithread # "None" <=> state # None))

\* C35: two callers that are both inside stop() waiting for stop_lock, while the
\* lock is held, have a loop to wait for, one that is still to release the lock.
C35_StopsReturn ==
    \A c, d \in Clients :
        (/\ c # d
         /\ cpc[c] \in {"stop_acq1", "stop_acq2"}
         /\ cpc[d] \in {"stop_acq1", "stop_acq2"}
         /\ stop_lock)
            => \E r \in Runners : rpc[r] \in RunPcs

(***************************************************************************)
(* Properties of the framing, checked under SpecFrame                      *)
(***************************************************************************)
\* The bodies of the packets ps, one after the other.
RECURSIVE Frames(_)
Frames(ps) == IF ps = <<>> THEN <<>> ELSE BCat(Frame(Head(ps)), Frames(Tail(ps)))

\* The bytes the reader has taken off the stream for the packet it is reading.
Taken ==
    IF rd.pc = "idle" THEN <<>>
    ELSE IF rd.stage = "header" THEN rd.data
    ELSE BCat(to_bytes(rd.want, HeaderLen), rd.data)

\* C9: every payload written has a length of at most 2^24 - 1 (a longer one is
\* refused and nothing of it is written); the payloads read_packet has returned
\* are, in order and byte for byte, the first payloads written, however recv split
\* the bytes; and the bytes taken for the packet being read followed by the bytes
\* still in the stream are exactly the bodies of the packets not yet returned,
\* followed by what a failed sendall left: no byte is lost, none is read twice,
\* and read_bytes never holds more bytes than it was asked for.
C9_RoundTrip ==
    /\ \A i \in 1..Len(sent) : BLen(sent[i]) <= LenLimit - 1
    /\ rd.pc = "read_bytes" => BLen(rd.data) <= rd.want
    /\ Len(got) <= Len(sent)
    /\ \A i \in 1..Len(got) : got[i].data = sent[i]
    /\ BCat(Taken, wire) = BCat(Frames(SubSeq(sent, Len(got) + 1, Len(sent))), trunc)

\* Two packets in a row were returned, each read from recv results shorter than
\* asked for: the first one's bytes read as a header, the second one has the
\* longest length; a payload of 2^24 bytes was refused.
C9_Witness ==
    /\ Len(got) >= 2
    /\ got[1].data = <<<<0, 2>>, <<1, 1>>>>
    /\ got[1].split
    /\ BLen(got[2].data) = LenLimit - 1
    /\ got[2].split
    /\ wire = <<>>
    /\ send_last = "OverflowError"

\* C10: once a recv has returned no bytes or raised, read_packet has raised
\* ClosedException and returns nothing; and whatever read_packet has returned
\* is a payload that was written in full, never a part of one.
C10_ClosedDetection ==
    /\ recv_last \in {"eof", "error"} => rd.pc = "ClosedException"
    /\ rd.pc = "ClosedException" => recv_last \in {"eof", "error"}
    /\ \A i \in 1..Len(got) : i <= Len(sent) /\ got[i].data = sent[i]

\* The stream ended in the middle of a header: read_packet raised with one or two
\* of its three bytes read.
C10_Witness ==
    /\ rd.pc = "ClosedException"
    /\ recv_last = "eof"
    /\ rd.stage = "header"
    /\ BLen(rd.data) \in {1, 2}

(***************************************************************************)
(* Properties of the server, checked under SpecServe and SpecClose         *)
(***************************************************************************)
\* The requests gpio_service's handler refuses: keys missing, a name that is not
\* exported, an operation the peripheral does not have.
Refused(req) ==
    \/ "name" \notin DOMAIN req
    \/ "operation" \notin DOMAIN req
    \/ req.name \notin {"tank_temp", "peltier", "fan"}
    \/ req.name = "tank_temp" /\ req.operation # "read"
    \/ req.name \in {"peltier", "fan"} /\ req.operation \notin {"is_on", "turn_on", "turn_off"}

Live(k) == spc[k] \in {"get_request", "handle", "send_response", "send_error"}

\* C11: a request the handler refuses makes the handler raise (LookupError for
\* an unknown name); with the connection open, what the session then writes is
\* "Internal error" followed by the description of the failure, and the session
\* goes back to reading the next request; a session ends only when its
\* connection is no longer open or a request frame is not JSON.
C11_HandlerFailure ==
    [][\A k \in Conns :
        /\ (spc[k] = "handle" /\ spc'[k] # "handle" /\ Refused(Request(k)))
            => /\ spc'[k] = "send_error"
               /\ pend'[k].kind = "raise"
               /\ Request(k).name = "unknown" => pend'[k].e = "LookupError"
        /\ (spc[k] = "send_error" /\ spc'[k] # "send_error" /\ link[k] = "open")
            => /\ resps'[k] = Append(resps[k], [kind |-> "error",
                                                text |-> <<"Internal error", pend[k].e>>])
               /\ spc'[k] = "get_request"
        /\ (Live(k) /\ ~Live(k)')
            => \/ link[k] # "open"
               \/ spc[k] = "get_request" /\ "malformed" \in DOMAIN Head(inq[k])]_vars

\* The handler raised on an unknown name, the session answered "Internal error
\* LookupError" and then served the next request on the same connection.
C11_Witness ==
    /\ Len(resps["k1"]) >= 2
    /\ reqs["k1"][1] = [name |-> "unknown", operation |-> "read"]
    /\ resps["k1"][1] = [kind |-> "error", text |-> <<"Internal error", "LookupError">>]
    /\ resps["k1"][2].kind = "value"
    /\ link["k1"] = "open"

\* What a response to a request may be.
Answers(req, resp) ==
    IF Refused(req) THEN resp.kind = "error"
    ELSE IF req.operation = "read"
         THEN \/ resp.kind = "value" /\ resp.v.type = "float"
              \/ resp.kind = "error" /\ resp.text[2] \in {"OSError", "TypeError"}
    ELSE IF req.operation = "is_on" THEN resp.kind = "value" /\ resp.v.type = "bool"
    ELSE resp.kind = "value" /\ resp.v.type = "str"

\* C12: on each connection the session has written as many responses as it has
\* read requests when it reads the next one, and one fewer while it serves a
\* request; the i-th response answers the i-th request.
C12_Alternation ==
    \A k \in Conns :
        /\ spc[k] = "get_request" => Len(resps[k]) = Len(reqs[k])
        /\ spc[k] \in {"handle", "send_response", "send_error"}
            => Len(reqs[k]) = Len(resps[k]) + 1
        /\ Len(resps[k]) <= Len(reqs[k])
        /\ Len(reqs[k]) <= Len(resps[k]) + 1
        /\ \A i \in 1..Len(resps[k]) : Answers(reqs[k][i], resps[k][i])

\* Three requests were answered in turn: a value that could not be encoded, a
\* device read, an unknown name.
C12_Witness ==
    /\ Len(resps["k1"]) = 3
    /\ resps["k1"][1] = [kind |-> "error", text |-> <<"Internal error", "TypeError">>]
    /\ resps["k1"][2].kind = "value"
    /\ resps["k1"][2].v.type = "bool"
    /\ resps["k1"][3] = [kind |-> "error", text |-> <<"Internal error", "LookupError">>]
    /\ spc["k1"] = "get_request"

\* C13: once close() has returned the listener is closed and no thread that
\* executes conn_manager is alive.
C13_NoDanglingWorkers ==
    clpc = "returned" => (lsock = "closed" /\ \A k \in Conns : ~Live(k))

\* C32: no conn_manager thread that has read well-formed requests only is ended
\* by an exception: a stream that closes ends it by the break of its loop.
C32_OrdinaryClosure ==
    \A k \in Conns :
        spc[k] = "died" => \E i \in DOMAIN reqs[k] : "malformed" \in DOMAIN reqs[k][i]

(***************************************************************************)
(* Properties of the client, checked under SpecClient                      *)
(***************************************************************************)
\* Where a caller is between starting to connect or send and finishing to
\* receive.
InFlightPcs == {"rq_check", "rq_send_head", "rq_send_body", "rq_recv", "rq_discard",
                "rq_connect"}

\* The parts of frames on a connection come in pairs: every header part is
\* followed by the payload part of the same call, unless it is the last part
\* and its sender is about to write the payload or the connection broke
\* before the payload.
Paired(n) ==
    LET q == chan[n].inb
    IN  \A i \in 1..Len(q) :
            IF i % 2 = 1
            THEN /\ q[i].part = "head"
                 /\ \/ i < Len(q) /\ q[i + 1] = Part(q[i].call, "body")
                    \/ i = Len(q) /\ ~chan[n].up
                    \/ i = Len(q) /\ \E c \in Clients : /\ qpc[c] = "rq_send_body"
                                                         /\ qloc[c].body = q[i].call
            ELSE q[i].part = "body"

\* C14: at most one caller at a time is between taking up the connection and
\* having received; on every connection the parts of request frames of
\* different calls are not interleaved, and no response of one call is left for
\* another; and a call that has returned a response has returned the one to its
\* own body.
C14_SingleFlight ==
    /\ Cardinality({c \in Clients : qpc[c] \in InFlightPcs}) <= 1
    /\ \A n \in 1..MaxLinks : Paired(n)
    /\ \A c \in Clients :
        qloc[c].ret.kind = "response" => qloc[c].ret.re = qloc[c].body
    /\ \A c \in Clients :
        (qpc[c] = "rq_recv" /\ chan[conn].out # <<>>)
            => chan[conn].out = <<qloc[c].body>>

\* Two callers have shared one connection for three calls: the second call,
\* of the other caller, has returned its response, and the response to the
\* third is there to be read.
C14_Witness ==
    /\ qloc["c2"].ret = Returned(2)
    /\ qpc["c1"] = "rq_recv"
    /\ qloc["c1"].body = 3
    /\ conn = 1
    /\ chan[1].out = <<3>>

\* C15: a call connects at most once, and only after it found no cached
\* connection or the cached one raised ClosedException; the cached connection
\* is dropped before the attempt; a failed attempt ends the call with
\* ClosedException and with no connection cached; and a call that finds no
\* connection cached goes to connect without sending anything.
C15_Reconnection ==
    [][\A c \in Clients :
        /\ qloc'[c].connects <= 1
        /\ qloc'[c].connects > qloc[c].connects
            => /\ qpc[c] = "rq_connect"
               /\ conn = NoConn
               /\ qloc[c].try \in {0, 1}
        /\ (qpc[c] = "rq_connect" /\ qpc'[c] # "rq_connect" /\ conn' = conn)
            => /\ qpc'[c] = "idle"
               /\ qloc'[c].ret = Closed
               /\ conn' = NoConn
               /\ req_lock' = "free"
        /\ (qpc[c] = "rq_check" /\ qpc'[c] # "rq_check" /\ conn = NoConn)
            => /\ qpc'[c] = "rq_discard"
               /\ qloc'[c].sends = 0
               /\ chan' = chan
        /\ (qpc[c] \in {"rq_send_head", "rq_send_body", "rq_recv"}
                /\ qloc[c].try = 1 /\ qloc'[c].ret = Closed)
            => FALSE
      ]_vars

\* A call found its cached connection closed, failed to connect and raised
\* ClosedException, and the next call has gone straight to connecting.
C15_Witness ==
    /\ qloc["c1"].ret = Closed
    /\ qloc["c1"].sends = 1
    /\ qloc["c1"].connects = 1
    /\ qpc["c2"] = "rq_connect"
    /\ qloc["c2"].body > qloc["c1"].body
    /\ qloc["c2"].sends = 0
    /\ conn = NoConn

\* C16: the request is sent exactly once on the fresh connection of a call, and
\* a closed connection in the retry ends the call with ClosedException, with no
\* further connection attempt and no further send.
C16_Retry ==
    [][\A c \in Clients :
        /\ (qpc[c] = "rq_connect" /\ conn' # conn)
            => /\ qpc'[c] = "rq_send_head"
               /\ qloc'[c].try = 2
               /\ chan'[conn'].inb = <<>>
        /\ (qloc[c].try = 2 /\ qpc[c] = "rq_send_head" /\ qpc'[c] = "rq_send_body")
            => /\ qloc'[c].sends = qloc[c].sends + 1
               /\ chan[conn].up => chan'[conn].inb = <<Part(qloc[c].body, "head")>>
        /\ qloc'[c].try = 2 => qloc'[c].sends <= 2 /\ qloc'[c].connects = 1
        /\ (qloc[c].try = 2 /\ qpc[c] # "idle" /\ qpc'[c] # qpc[c]
                /\ ~chan[conn].up /\ chan[conn].out = <<>>)
            => \/ qpc[c] = "rq_send_head" /\ qpc'[c] = "rq_send_body"
               \/ qpc[c] = "rq_send_body" /\ qpc'[c] = "rq_recv"
               \/ /\ qpc'[c] = "idle"
                  /\ qloc'[c].ret = Closed
                  /\ req_lock' = "free"
                  /\ UNCHANGED <<conn, chan, nlinks>>
      ]_vars

\* The retry of a call that had found its cached connection closed raised
\* ClosedException after the request had been sent on the fresh connection.
C16_Witness ==
    \E c \in Clients :
        /\ qpc[c] = "idle"
        /\ qloc[c].ret = Closed
        /\ qloc[c].try = 2
        /\ qloc[c].sends = 2
        /\ qloc[c].connects = 1
        /\ conn # NoConn

\* The calls of the handler with request body b, on the connections up to n.
RECURSIVE Invocations(_, _)
Invocations(b, n) ==
    IF n = 0 THEN 0
    ELSE Invocations(b, n - 1)
            + Cardinality({i \in DOMAIN chan[n].served : chan[n].served[i] = b})

\* C36: a call of request() begins at most two transmissions of its frame and
\* the handler is called at most once per transmission; a second transmission
\* is on a fresh connection, made after the cached one was found closed; a
\* call answered on the cached connection has transmitted once and reached
\* the handler once.
C36_AtMostTwice ==
    /\ \A b \in 1..ncalls : Invocations(b, nlinks) <= 2
    /\ \A c \in Clients :
        LET l == qloc[c] IN
        l.body # 0 =>
            /\ l.sends <= 2
            /\ Invocations(l.body, nlinks) <= l.sends
            /\ l.sends = 2 => (l.try = 2 /\ l.connects = 1)
            /\ (qpc[c] = "idle" /\ l.ret.kind = "response" /\ l.try = 1)
                => (l.sends = 1 /\ Invocations(l.body, nlinks) = 1)

\* C36: a call has returned the response to its second transmission, the first
\* having reached the handler as well.
C36_Witness ==
    \E c \in Clients :
        /\ qpc[c] = "idle"
        /\ qloc[c].ret.kind = "response"
        /\ qloc[c].sends = 2
        /\ Invocations(qloc[c].body, nlinks) = 2

(***************************************************************************)
(* Properties of the supervisor, checked under SpecSuper, SpecCrash and    *)
(* SpecStop                                                                *)
(***************************************************************************)
\* The children that are running, and the worker sets with a thread that was
\* created and has not ended.
LiveProcs == {g \in Procs : child[g].st = "running"}
LiveThread(w, t) == wset[w][t] \notin {"none", "done", "died"}
LiveSets == {w \in Sets : \E t \in {"out", "err", "watch"} : LiveThread(w, t)}

\* C17: a start() that finds the instance running raises and spawns nothing, and
\* after every step at most one child process is running and at most one set of
\* workers is alive.
C17_SingleInstance ==
    [][/\ \A h \in Handlers :
            (hpc[h] \in {"rt_check", "st_check"} /\ hloc[h].op = "start"
                /\ hpc'[h] # hpc[h] /\ running)
                => /\ hpc'[h] = "idle"
                   /\ hloc'[h].res \in {"409", "RuntimeError"}
                   /\ UNCHANGED <<child, wset, proc, running>>
       /\ Cardinality(LiveProcs') <= 1
       /\ Cardinality(LiveSets') <= 1]_vars

\* C18: once a child has exited with a non-zero code (no stop being issued),
\* running becomes false and RunInfo becomes crashed with a non-empty info.
C18_CrashDetected ==
    \A g \in Procs :
        (child[g].st = "exited" /\ child[g].code # 0)
            ~> (/\ ~running
                /\ run_info.reason = "crashed"
                /\ run_info.info \notin {"None", ""})

\* C19: a stop that finds the instance not running is rejected and changes
\* nothing; an exit() that returns does so with every child exited, every
\* worker ended, running false, the mirror (null, null) and reason stopped.
C19_StopComplete ==
    [][\A h \in Handlers :
        /\ (hpc[h] \in {"rt_check", "ex_check"} /\ hloc[h].op = "stop"
                /\ hpc'[h] # hpc[h] /\ ~running)
            => /\ hpc'[h] = "idle"
               /\ hloc'[h].res \in {"409", "RuntimeError"}
               /\ UNCHANGED <<running, run_info, instance_info, child, wset, proc>>
        /\ (hpc[h] = "ex_info" /\ hpc'[h] = "idle")
            => /\ LiveProcs' = {}
               /\ LiveSets' = {}
               /\ ~running'
               /\ instance_info' = Null
               /\ run_info'.reason = "stopped"]_vars

\* C23: while an instance is running, the params file holds the params its
\* child was started with.
C23_ParamsSynced ==
    (running /\ proc # 0 /\ child[proc].st = "running")
        => child[proc].params = params_file

\* C28: running is true iff RunInfo.reason is started.
C28_StatusAtomic == running <=> run_info.reason = "started"

C30_ReaderEnds ==
    \A w \in Sets :
        (wset[w].err = "running" /\ child[wset[w].pipe].st = "exited")
            ~> (wset[w].err = "done")

\* C31: when stderr_stream has ended, the strings it gave to handle_packet are
\* the strings out_pipe was called with, one for one and in order.
C31_FramingAgrees ==
    reader.pc = "done" => reader.packets = emitted

\* C38: once start() has returned for a child and while that child is alive,
\* run_info.reason is "started": the watchdog of an earlier child does not
\* write its crash over it.
C38_LaterChildUntouched ==
    (/\ hpc["h1"] = "idle"
     /\ hloc["h1"].res = "204"
     /\ proc # 0
     /\ child[proc].st = "running")
        => run_info.reason = "started"

\* C39: when no start() is under way, the child that self.proc names has exited
\* and its watchdog has finished, running is false, whatever the exit code.
C39_DeadNotRunning ==
    \A w \in Sets :
        (/\ hpc["h1"] = "idle"
         /\ proc # 0
         /\ wset[w].wproc = proc
         /\ child[proc].st = "exited"
         /\ wset[w].watch \in {"done", "died"})
            => ~running

(***************************************************************************)
(* Properties of copy_state, checked under SpecCopy                        *)
(***************************************************************************)
\* C20: copy_state never raises, and what it returns is None or a State read
\* while no tick was under way.
C20_Snapshot ==
    \A c \in Clients :
        /\ snap[c].ret \in {"none", "None", "State"}
        /\ snap[c].ret = "State" => ~snap[c].mid

(***************************************************************************)
(* Properties of gpio_service's cache, checked under SpecCache             *)
(***************************************************************************)
\* The sessions whose handle_req holds req_lock.
Serving == {k \in Conns : gpc[k] \in {"check", "sample", "store", "return"}}

\* The sessions whose handle_req is inside the with block.
Inside == {k \in Conns : gpc[k] \in {"check", "sample", "store", "return", "operate"}}

\* C33: at most one session is inside the with block, and it is the one that
\* holds req_lock; a session that is not inside, one whose request ended with a
\* lookup failure or a failed operation included, does not hold the lock; and
\* the cache and the relays change only in a step of the session inside.
C33_OneAtATime ==
    [][/\ Cardinality(Inside) <= 1
       /\ \A k \in Conns : k \in Inside <=> req_lock_g = k
       /\ (cache' # cache \/ peltier' # peltier \/ fan' # fan)
            => \E k \in Inside : gpc'[k] # gpc[k]]_vars

\* C33: a session waits for req_lock with a sensor's request while the other
\* operates a device inside the with block.
C33_Witness ==
    \E k, j \in Conns :
        /\ gpc[k] = "operate"
        /\ req_lock_g = k
        /\ gpc[j] = "lock"
        /\ gloc[j].name \in Sensors

\* C22: a read about to return, served while the cached reading was younger
\* than CACHE_EXPIRE, has made no sample and returns the cached value; served
\* after the reading had expired (or with nothing cached), it has made exactly
\* one sample, returns it and has cached it; and the sessions are served one
\* at a time.
C22_Cache ==
    /\ Cardinality(Serving) <= 1
    /\ \A k \in Conns :
        gpc[k] = "return" =>
            LET l == gloc[k] IN
            /\ (l.item.fresh /\ l.at - l.item.t < CACHE_EXPIRE)
                => (l.samples = 0 /\ l.reading = l.item.v /\ cache[l.name] = l.item)
            /\ (~l.item.fresh \/ l.at - l.item.t > CACHE_EXPIRE)
                => /\ l.samples = 1
                   /\ cache[l.name].fresh
                   /\ cache[l.name].v = l.reading
                   /\ cache[l.name].t >= l.at

\* C22: a read is about to return a fresh sample in place of an expired one,
\* after a read of the other session was answered from the cache.
C22_Witness ==
    \E k, j \in Conns :
        /\ gpc[k] = "return"
        /\ gloc[k].item.fresh
        /\ gloc[k].at - gloc[k].item.t > CACHE_EXPIRE
        /\ gloc[k].samples = 1
        /\ gloc[k].reading # gloc[k].item.v
        /\ j # k
        /\ gloc[j].ret = "value"
        /\ gloc[j].samples = 0

====
